---- MODULE Spec2Model ----
(***************************************************************************)
(* A model of the RTMP ingest server c-bata/rtmp: the handshake codec,     *)
(* the chunk header codec, the protocol-control builders and the           *)
(* per-connection driver (conn.serve, conn.handshake, conn.readChunk,      *)
(* conn.handleCommandMessageAMF0).  Bytes are naturals in 0..255, byte     *)
(* slices are sequences, Go strings are sequences of their bytes.          *)
(***************************************************************************)
EXTENDS Integers, Sequences, FiniteSets, TLC

(***************************************************************************)
(* Bounds of the model.                                                    *)
(***************************************************************************)
\* number of chunks the peer sends after the handshake
MaxSends == 2
\* number of chunks the peer sends in a session that starts after the handshake
MaxSessionSends == 3
\* number of calls of Accept, and of connections accepted
MaxCalls == 12
MaxConns == 2
\* number of chunks each peer of two connections served side by side sends
MaxPairSends == 1

(***************************************************************************)
(* Program constants.                                                      *)
(***************************************************************************)
WindowAcknowledgementSize == 2500000
PeerBandWidth == 2500000
PeerBandwidthLimitTypeDynamic == 2

StateUninitialized == 0
StateVersionSent == 1
StateAckSent == 2
StateHandshakeDone == 3
StateConnectResponseSent == 4
StateSentCreateStreamResponse == 5
StatePublishingContent == 6

MessageSetChunkSize == 1
MessageAbort == 2
MessageAcknowledgement == 3
MessageUserControl == 4
MessageAcknowledgementWindowSize == 5
MessageSetPeerBandwidth == 6
MessageAudio == 8
MessageVideo == 9
MessageDataAMF3 == 15
MessageSharedObjectAMF3 == 16
MessageCommandAMF3 == 17
MessageDataAMF0 == 18
MessageSharedObjectAMF0 == 19
MessageCommandAMF0 == 20
MessageAggregate == 22

\* length of the random field of the C1/S1/C2/S2 packets
RandomLen == 1528
\* length of a C1/S1/C2/S2 packet: time, zero or time2, and the random field
HandshakeChunkLen == 1536
\* the first delay and the longest delay of the accept loop, in milliseconds
AcceptFirstDelay == 5
AcceptMaxDelay == 1000
\* the sentinel of the 24-bit timestamp fields
TimestampSentinel == 16777215
\* chunk size the connect reply announces
ConnectChunkSize == 4096

(***************************************************************************)
(* Byte arithmetic (encoding/binary).  The integers of the checker are 32  *)
(* bits wide and signed, so a uint32 at or above 2^31 is held as its two's *)
(* complement, value - 2^32: the same 32 bits.  PutUint32 yields the bytes *)
(* of either form, and unsigned comparisons go through U32Less.            *)
(***************************************************************************)
Byte(n) == n % 256

PutUint16BE(n) == <<Byte(n \div 256), Byte(n)>>

PutUint32BE(n) == <<Byte(n \div 16777216), Byte(n \div 65536), Byte(n \div 256), Byte(n)>>

PutUint32LE(n) == <<Byte(n), Byte(n \div 256), Byte(n \div 65536), Byte(n \div 16777216)>>

Uint16BE(b) == b[1] * 256 + b[2]

\* the top byte, signed
TopByte(x) == IF x >= 128 THEN x - 256 ELSE x

Uint32BE(b) == TopByte(b[1]) * 16777216 + b[2] * 65536 + b[3] * 256 + b[4]

Uint32LE(b) == TopByte(b[4]) * 16777216 + b[3] * 65536 + b[2] * 256 + b[1]

\* a < b as uint32
U32Less(a, b) == IF (a < 0) = (b < 0) THEN a < b ELSE b < 0

Take(s, n) == SubSeq(s, 1, n)

Drop(s, n) == SubSeq(s, n + 1, Len(s))

Min(a, b) == IF a < b THEN a ELSE b

\* the element of a singleton set.  A value that is computed once and used
\* several times is bound as the element of a singleton: {F(x) : x \in {e}}.
Only(S) == CHOOSE x \in S : TRUE

(***************************************************************************)
(* Blocking reads of a bufio.Reader over the peer socket.  buf holds the   *)
(* bytes the peer has sent and the server has not consumed; closed tells   *)
(* that the peer has closed its side.  A read that needs more bytes than   *)
(* buf holds blocks while the peer is still open.                          *)
(***************************************************************************)
\* io.ReadAtLeast taking a short input at end of stream as a full one, the missing bytes zero
ReadAtLeast_ShortIsEnough(buf, n, closed) ==
    IF n = 0 THEN [err |-> "nil", data |-> <<>>, rest |-> buf]
    ELSE IF Len(buf) >= n THEN [err |-> "nil", data |-> Take(buf, n), rest |-> Drop(buf, n)]
    ELSE IF ~closed THEN [err |-> "block", data |-> <<>>, rest |-> buf]
    ELSE IF Len(buf) = 0 THEN [err |-> "EOF", data |-> <<>>, rest |-> <<>>]
    ELSE [err |-> "nil", data |-> buf \o [i \in 1..(n - Len(buf)) |-> 0], rest |-> <<>>]

ReadAtLeast(buf, n, closed) ==
    IF n = 0 THEN [err |-> "nil", data |-> <<>>, rest |-> buf]
    ELSE IF Len(buf) >= n THEN [err |-> "nil", data |-> Take(buf, n), rest |-> Drop(buf, n)]
    ELSE IF ~closed THEN [err |-> "block", data |-> <<>>, rest |-> buf]
    ELSE IF Len(buf) = 0 THEN [err |-> "EOF", data |-> <<>>, rest |-> <<>>]
    ELSE [err |-> "ErrUnexpectedEOF", data |-> buf, rest |-> <<>>]

ReadByte(buf, closed) == ReadAtLeast(buf, 1, closed)

(***************************************************************************)
(* Handshake codec.                                                        *)
(***************************************************************************)
newChunkC0S0 == [version |-> 3]

C0S0Bytes(p) == <<p.version>>

readC0S0(buf, closed) ==
    Only({IF r.err # "nil" THEN [err |-> r.err, chunk |-> [version |-> 0], rest |-> r.rest]
          ELSE [err |-> "nil", chunk |-> [version |-> r.data[1]], rest |-> r.rest]
          : r \in {ReadByte(buf, closed)}})

\* randomBytes is the outcome of rand.Read
newChunkC1S1(time1, randomBytes) == [time |-> time1, randomBytes |-> randomBytes]

\* Bytes of a C1 or S1 with the random bytes right after the time
C1S1Bytes_RandomAtOffset4(p) ==
    PutUint32BE(p.time) \o Take(p.randomBytes, Min(Len(p.randomBytes), RandomLen)) \o <<0, 0, 0, 0>>

C1S1Bytes(p) ==
    PutUint32BE(p.time) \o <<0, 0, 0, 0>> \o Take(p.randomBytes, Min(Len(p.randomBytes), RandomLen))

readC1S1(buf, closed) ==
    Only({IF r.err # "nil" THEN [err |-> r.err, chunk |-> [time |-> 0, randomBytes |-> <<>>], rest |-> r.rest]
          ELSE [err |-> "nil",
                chunk |-> [time |-> Uint32BE(Take(r.data, 4)), randomBytes |-> Drop(r.data, 8)],
                rest |-> r.rest]
          : r \in {ReadAtLeast(buf, HandshakeChunkLen, closed)}})

\* newChunkC2S2 copying the local time into the time field
newChunkC2S2_TimeIsNow(p, now) == [time |-> now, time2 |-> now, randomEcho |-> p.randomBytes]

\* now is the outcome of time.Now() in milliseconds, truncated to 32 bits
newChunkC2S2(p, now) == [time |-> p.time, time2 |-> now, randomEcho |-> p.randomBytes]

\* C2S2Bytes with the echo copied to offset 4 instead of 8
C2S2Bytes_EchoAtOffset4(p) ==
    PutUint32BE(p.time) \o Take(p.randomEcho, Min(Len(p.randomEcho), RandomLen)) \o PutUint32BE(p.time2)

C2S2Bytes(p) ==
    PutUint32BE(p.time) \o PutUint32BE(p.time2) \o Take(p.randomEcho, Min(Len(p.randomEcho), RandomLen))

readC2S2(buf, closed) ==
    Only({IF r.err # "nil"
          THEN [err |-> r.err, chunk |-> [time |-> 0, time2 |-> 0, randomEcho |-> <<>>], rest |-> r.rest]
          ELSE [err |-> "nil",
                chunk |-> [time |-> Uint32BE(Take(r.data, 4)),
                           time2 |-> Uint32BE(SubSeq(r.data, 5, 8)),
                           randomEcho |-> Drop(r.data, 8)],
                rest |-> r.rest]
          : r \in {ReadAtLeast(buf, HandshakeChunkLen, closed)}})

(***************************************************************************)
(* Chunk header codec.                                                     *)
(***************************************************************************)
NoMessageHeader ==
    [Timestamp |-> 0, TimestampDelta |-> 0, MessageLength |-> 0, MessageTypeID |-> 0, MessageStreamID |-> 0]

NoBasicHeader == [FMT |-> 0, ChunkStreamID |-> 0]

NoChunkHeader == [BasicHeader |-> NoBasicHeader, MessageHeader |-> NoMessageHeader, ExtendedTimestamp |-> 0]

genBasicHeader(bh) ==
    IF U32Less(bh.ChunkStreamID, 64)
    THEN [err |-> "nil", bytes |-> <<Byte((bh.ChunkStreamID % 64) + Byte(bh.FMT * 64))>>]
    ELSE IF U32Less(bh.ChunkStreamID, 320)
    THEN [err |-> "nil", bytes |-> <<Byte(bh.FMT * 64), Byte(bh.ChunkStreamID - 64)>>]
    ELSE IF U32Less(bh.ChunkStreamID, 65599)
    THEN [err |-> "nil", bytes |-> <<Byte(Byte(bh.FMT * 64) + 63)>> \o PutUint16BE((bh.ChunkStreamID - 64) % 65536)]
    ELSE [err |-> "errInvalidChunkStreamID", bytes |-> <<>>]

\* the bytes after the first byte x of a basic header
readBasicHeaderRest(x, buf, closed) ==
    IF x % 64 = 0
    THEN Only({IF y.err # "nil" THEN [err |-> y.err, h |-> NoBasicHeader, rest |-> y.rest]
               ELSE [err |-> "nil", h |-> [FMT |-> x \div 64, ChunkStreamID |-> y.data[1] + 64], rest |-> y.rest]
               : y \in {ReadByte(buf, closed)}})
    ELSE IF x % 64 = 1
    THEN Only({IF z.err # "nil" THEN [err |-> z.err, h |-> NoBasicHeader, rest |-> z.rest]
               ELSE [err |-> "nil", h |-> [FMT |-> x \div 64, ChunkStreamID |-> Uint16BE(z.data) + 64],
                     rest |-> z.rest]
               : z \in {ReadAtLeast(buf, 2, closed)}})
    ELSE [err |-> "nil", h |-> [FMT |-> x \div 64, ChunkStreamID |-> x % 64], rest |-> buf]

readBasicHeader(buf, closed) ==
    Only({IF r.err # "nil" THEN [err |-> r.err, h |-> NoBasicHeader, rest |-> r.rest]
          ELSE readBasicHeaderRest(r.data[1], r.rest, closed)
          : r \in {ReadByte(buf, closed)}})

Uint24Bytes(n) == <<Byte(n \div 65536), Byte(n \div 256), Byte(n)>>

\* a 24-bit field on the wire: values above the sentinel are written as the sentinel
Clamp24(t) == IF U32Less(TimestampSentinel, t) THEN TimestampSentinel ELSE t

genMessageHeader(mh, fmt) ==
    CASE fmt = 0 -> [err |-> "nil",
                     bytes |-> Uint24Bytes(Clamp24(mh.Timestamp)) \o Uint24Bytes(mh.MessageLength)
                               \o <<mh.MessageTypeID>> \o PutUint32LE(mh.MessageStreamID)]
      [] fmt = 1 -> [err |-> "nil",
                     bytes |-> Uint24Bytes(Clamp24(mh.TimestampDelta)) \o Uint24Bytes(mh.MessageLength)
                               \o <<mh.MessageTypeID>>]
      [] fmt = 2 -> [err |-> "nil", bytes |-> Uint24Bytes(Clamp24(mh.TimestampDelta))]
      [] fmt = 3 -> [err |-> "nil", bytes |-> <<>>]
      [] OTHER -> [err |-> "errUnknownFMT", bytes |-> <<>>]

\* parseMessageHeader reading the message stream id big-endian
parseMessageHeader_StreamIDBigEndian(x, fmt) ==
    CASE fmt = 0 -> [err |-> "nil",
                     mh |-> [Timestamp |-> Uint32BE(<<0>> \o SubSeq(x, 1, 3)),
                             TimestampDelta |-> 0,
                             MessageLength |-> Uint32BE(<<0>> \o SubSeq(x, 4, 6)),
                             MessageTypeID |-> x[7],
                             MessageStreamID |-> Uint32BE(SubSeq(x, 8, 11))]]
      [] fmt = 1 -> [err |-> "nil",
                     mh |-> [Timestamp |-> 0,
                             TimestampDelta |-> Uint32BE(<<0>> \o SubSeq(x, 1, 3)),
                             MessageLength |-> Uint32BE(<<0>> \o SubSeq(x, 4, 6)),
                             MessageTypeID |-> x[7],
                             MessageStreamID |-> 0]]
      [] fmt = 2 -> [err |-> "panic", mh |-> NoMessageHeader]
      [] OTHER -> [err |-> "nil", mh |-> NoMessageHeader]

\* the message header held by the bytes x, read with success, of a chunk of format fmt
parseMessageHeader(x, fmt) ==
    CASE fmt = 0 -> [err |-> "nil",
                     mh |-> [Timestamp |-> Uint32BE(<<0>> \o SubSeq(x, 1, 3)),
                             TimestampDelta |-> 0,
                             MessageLength |-> Uint32BE(<<0>> \o SubSeq(x, 4, 6)),
                             MessageTypeID |-> x[7],
                             MessageStreamID |-> Uint32LE(SubSeq(x, 8, 11))]]
      [] fmt = 1 -> [err |-> "nil",
                     mh |-> [Timestamp |-> 0,
                             TimestampDelta |-> Uint32BE(<<0>> \o SubSeq(x, 1, 3)),
                             MessageLength |-> Uint32BE(<<0>> \o SubSeq(x, 4, 6)),
                             MessageTypeID |-> x[7],
                             MessageStreamID |-> 0]]
      \* binary.BigEndian.Uint32 of the 3-byte slice is an out-of-range access
      [] fmt = 2 -> [err |-> "panic", mh |-> NoMessageHeader]
      [] OTHER -> [err |-> "nil", mh |-> NoMessageHeader]

\* the number of bytes of the message header of a chunk of format fmt
MessageHeaderLen(fmt) == CASE fmt = 0 -> 11 [] fmt = 1 -> 7 [] fmt = 2 -> 3 [] OTHER -> 0

readMessageHeader(buf, fmt, closed) ==
    IF fmt > 3 THEN [err |-> "errUnknownFMT", mh |-> NoMessageHeader, rest |-> buf]
    ELSE Only({IF r.err # "nil" THEN [err |-> r.err, mh |-> NoMessageHeader, rest |-> r.rest]
               ELSE Only({[err |-> m.err, mh |-> m.mh, rest |-> r.rest] : m \in {parseMessageHeader(r.data, fmt)}})
               : r \in {ReadAtLeast(buf, MessageHeaderLen(fmt), closed)}})

\* the extended timestamp that follows the bytes x of the basic and message headers
genExtendedTimestamp(ch, x) ==
    IF ~U32Less(ch.MessageHeader.Timestamp, TimestampSentinel)
    THEN [err |-> "nil", bytes |-> x \o PutUint32BE(ch.MessageHeader.Timestamp)]
    ELSE IF ~U32Less(ch.MessageHeader.TimestampDelta, TimestampSentinel)
    THEN [err |-> "nil", bytes |-> x \o PutUint32BE(ch.MessageHeader.TimestampDelta)]
    ELSE [err |-> "nil", bytes |-> x]

genChunkHeader(ch) ==
    Only({IF bh.err # "nil" THEN [err |-> bh.err, bytes |-> <<>>]
          ELSE Only({IF mh.err # "nil" THEN [err |-> mh.err, bytes |-> <<>>]
                     ELSE genExtendedTimestamp(ch, bh.bytes \o mh.bytes)
                     : mh \in {genMessageHeader(ch.MessageHeader, ch.BasicHeader.FMT)}})
          : bh \in {genBasicHeader(ch.BasicHeader)}})

\* the extended timestamp, if any, after the headers bh and mh
readExtendedTimestamp(bh, mh, closed) ==
    IF mh.mh.Timestamp = TimestampSentinel \/ mh.mh.TimestampDelta = TimestampSentinel
    THEN Only({IF x.err # "nil" THEN [err |-> x.err, ch |-> NoChunkHeader, rest |-> x.rest]
               ELSE [err |-> "nil",
                     ch |-> [BasicHeader |-> bh.h, MessageHeader |-> mh.mh, ExtendedTimestamp |-> Uint32BE(x.data)],
                     rest |-> x.rest]
               : x \in {ReadAtLeast(mh.rest, 4, closed)}})
    ELSE [err |-> "nil",
          ch |-> [BasicHeader |-> bh.h, MessageHeader |-> mh.mh, ExtendedTimestamp |-> 0],
          rest |-> mh.rest]

readChunkHeader(buf, closed) ==
    Only({IF bh.err # "nil" THEN [err |-> bh.err, ch |-> NoChunkHeader, rest |-> bh.rest]
          ELSE Only({IF mh.err # "nil" THEN [err |-> mh.err, ch |-> NoChunkHeader, rest |-> mh.rest]
                     ELSE readExtendedTimestamp(bh, mh, closed)
                     : mh \in {readMessageHeader(bh.rest, bh.h.FMT, closed)}})
          : bh \in {readBasicHeader(buf, closed)}})

(***************************************************************************)
(* Protocol-control and user-control builders.                             *)
(***************************************************************************)
\* generateProtocolControlMessageHeader with a message length of 4 for every message
generateProtocolControlMessageHeader_Length4(messageTypeID, messageLength) ==
    [BasicHeader |-> [FMT |-> 0, ChunkStreamID |-> 2],
     MessageHeader |-> [NoMessageHeader EXCEPT !.MessageLength = 4,
                                               !.MessageTypeID = messageTypeID],
     ExtendedTimestamp |-> 0]

generateProtocolControlMessageHeader(messageTypeID, messageLength) ==
    [BasicHeader |-> [FMT |-> 0, ChunkStreamID |-> 2],
     MessageHeader |-> [NoMessageHeader EXCEPT !.MessageLength = messageLength,
                                               !.MessageTypeID = messageTypeID],
     ExtendedTimestamp |-> 0]

\* GenerateSetChunkSize leaving the top bit of the size as it is
GenerateSetChunkSize_KeepsTopBit(chunkSize) ==
    Only({IF x.err # "nil" THEN [err |-> x.err, bytes |-> <<>>]
          ELSE [err |-> "nil", bytes |-> x.bytes \o y]
          : x \in {genChunkHeader(generateProtocolControlMessageHeader(1, 4))}, y \in {PutUint32BE(chunkSize)}})

GenerateSetChunkSize(chunkSize) ==
    Only({IF x.err # "nil" THEN [err |-> x.err, bytes |-> <<>>]
          ELSE [err |-> "nil", bytes |-> x.bytes \o <<y[1] % 128, y[2], y[3], y[4]>>]
          : x \in {genChunkHeader(generateProtocolControlMessageHeader(1, 4))}, y \in {PutUint32BE(chunkSize)}})

GenerateWindowAcknowledgementSizeChunk(size) ==
    Only({IF x.err # "nil" THEN [err |-> x.err, bytes |-> <<>>]
          ELSE [err |-> "nil", bytes |-> x.bytes \o PutUint32BE(size)]
          : x \in {genChunkHeader(generateProtocolControlMessageHeader(5, 4))}})

GenerateSetPeerBandwidthChunk(size, limitType) ==
    Only({IF x.err # "nil" THEN [err |-> x.err, bytes |-> <<>>]
          ELSE [err |-> "nil", bytes |-> x.bytes \o PutUint32BE(size) \o <<Byte(limitType)>>]
          : x \in {genChunkHeader(generateProtocolControlMessageHeader(6, 5))}})

generateUserControlMessageHeader(messageLength) ==
    [BasicHeader |-> [FMT |-> 0, ChunkStreamID |-> 2],
     MessageHeader |-> [NoMessageHeader EXCEPT !.MessageLength = messageLength, !.MessageTypeID = 4],
     ExtendedTimestamp |-> 0]

GenerateUserStreamBegin(streamID) ==
    Only({IF x.err # "nil" THEN [err |-> x.err, bytes |-> <<>>]
          ELSE [err |-> "nil", bytes |-> x.bytes \o PutUint16BE(0) \o PutUint32BE(streamID)]
          : x \in {genChunkHeader(generateUserControlMessageHeader(6))}})

(***************************************************************************)
(* What the server writes.  A written message is a record: a control chunk *)
(* or handshake packet carries its bytes; a command reply, whose AMF0      *)
(* serialisation is left to the external encoder, carries its name, the    *)
(* transaction id (the 8 bytes of the double) and its string argument.     *)
(***************************************************************************)
Raw(bytes) == [name |-> "bytes", bytes |-> bytes, txid |-> <<>>, arg |-> <<>>]

GenerateConnectResult(transactionID) ==
    [err |-> "nil", msg |-> [name |-> "_result(connect)", bytes |-> <<>>, txid |-> transactionID, arg |-> <<>>]]

GenerateOnFCPublishMessage(transactionID, streamName) ==
    [err |-> "nil", msg |-> [name |-> "onFCPublish", bytes |-> <<>>, txid |-> transactionID, arg |-> streamName]]

\* the _result of createStream carries stream id 1
CreateStreamResponseMessage(transactionID) ==
    [err |-> "nil", msg |-> [name |-> "_result(createStream)", bytes |-> <<>>, txid |-> transactionID, arg |-> <<1>>]]

CreateOnStatusPublishStartMessage(transactionID, streamName) ==
    [err |-> "nil", msg |-> [name |-> "onStatus(publish start)", bytes |-> <<>>, txid |-> transactionID, arg |-> streamName]]

(***************************************************************************)
(* The AMF0 reads the command dispatch uses, over the bytes of a           *)
(* bytes.Buffer: a string is marker 2, a 16-bit length and the bytes; a    *)
(* double is marker 0 and 8 bytes; null is marker 5.  A read at the end of *)
(* the buffer fails with io.EOF, a malformed value with another error.     *)
(***************************************************************************)
AMF0NumberMarker == 0
AMF0StringMarker == 2
AMF0NullMarker == 5

amfReadString(buf) ==
    IF Len(buf) = 0 THEN [err |-> "EOF", val |-> <<>>, rest |-> buf]
    ELSE IF buf[1] # AMF0StringMarker THEN [err |-> "err", val |-> <<>>, rest |-> Drop(buf, 1)]
    ELSE IF Len(buf) < 3 THEN [err |-> "err", val |-> <<>>, rest |-> <<>>]
    ELSE IF Len(buf) < 3 + Uint16BE(SubSeq(buf, 2, 3)) THEN [err |-> "err", val |-> <<>>, rest |-> <<>>]
    ELSE [err |-> "nil",
          val |-> SubSeq(buf, 4, 3 + Uint16BE(SubSeq(buf, 2, 3))),
          rest |-> Drop(buf, 3 + Uint16BE(SubSeq(buf, 2, 3)))]

amfReadDouble(buf) ==
    IF Len(buf) = 0 THEN [err |-> "EOF", val |-> <<>>, rest |-> buf]
    ELSE IF buf[1] # AMF0NumberMarker THEN [err |-> "err", val |-> <<>>, rest |-> Drop(buf, 1)]
    ELSE IF Len(buf) < 9 THEN [err |-> "err", val |-> <<>>, rest |-> <<>>]
    ELSE [err |-> "nil", val |-> SubSeq(buf, 2, 9), rest |-> Drop(buf, 9)]

amfReadValue(buf) ==
    IF Len(buf) = 0 THEN [err |-> "EOF", val |-> <<>>, rest |-> buf]
    ELSE IF buf[1] = AMF0NullMarker THEN [err |-> "nil", val |-> <<>>, rest |-> Drop(buf, 1)]
    ELSE IF buf[1] = AMF0NumberMarker THEN amfReadDouble(buf)
    ELSE IF buf[1] = AMF0StringMarker THEN amfReadString(buf)
    ELSE [err |-> "err", val |-> <<>>, rest |-> Drop(buf, 1)]

\* the command names, as the bytes of their ASCII spelling
StrConnect == <<99, 111, 110, 110, 101, 99, 116>>
StrReleaseStream == <<114, 101, 108, 101, 97, 115, 101, 83, 116, 114, 101, 97, 109>>
StrFCPublish == <<70, 67, 80, 117, 98, 108, 105, 115, 104>>
StrCreateStream == <<99, 114, 101, 97, 116, 101, 83, 116, 114, 101, 97, 109>>
StrPublish == <<112, 117, 98, 108, 105, 115, 104>>

(***************************************************************************)
(* The connection.  A conn value holds the fields of the conn struct       *)
(* (state, chunkSize, streamName, bufr, bufw), the socket as the server    *)
(* sees it (sent: what was flushed to the peer, in order; netClosed:       *)
(* netconn.Close was called) and the serve task (pc: where it stands;      *)
(* ret: what serve returned; c1, s1: the locals of handshake; header,      *)
(* nread, gotEOF: the header the last readChunk parsed, the number of      *)
(* bytes it consumed after that header, and whether it logged "Got EOF").  *)
(* bufw.Write into the 64 KiB buffer does not fail before a failed Flush,  *)
(* and every handler returns at its first failed Flush.                    *)
(***************************************************************************)
NoC1S1 == [time |-> 0, randomBytes |-> <<>>]

\* Server.newConn: state and chunkSize are left at their zero values
newConn ==
    [state |-> StateUninitialized, chunkSize |-> 0, streamName |-> <<>>,
     bufr |-> <<>>, bufw |-> <<>>, sent |-> <<>>, netClosed |-> FALSE,
     pc |-> "handshakeC0", ret |-> "none", c1 |-> NoC1S1, s1 |-> NoC1S1,
     header |-> NoChunkHeader, nread |-> 0, gotEOF |-> FALSE]

Write(c, msg) == [c EXCEPT !.bufw = Append(@, msg)]

\* the bufw.Write of the messages msgs, in order
WriteAll(c, msgs) == [c EXCEPT !.bufw = @ \o msgs]

\* a successful bufw.Flush
Flush(c) == [c EXCEPT !.sent = @ \o c.bufw, !.bufw = <<>>]

Ret(c, err) == [c |-> c, err |-> err]

\* c after a read that left rest in bufr
AfterRead(c, rest) == [c EXCEPT !.bufr = rest]

(***************************************************************************)
(* conn.handshake, cut at its three blocking reads.  wok tells whether the *)
(* Flush of the step succeeds; failAt names the Flush that fails (0: none).*)
(***************************************************************************)
\* handshakeC0 without the check of the version
handshakeC0_AnyVersion(c, closed, wok) ==
    Only({IF r.err # "nil" THEN Ret(AfterRead(c, r.rest), r.err)
          ELSE IF ~wok THEN Ret(Write(AfterRead(c, r.rest), Raw(C0S0Bytes(newChunkC0S0))), "write error")
          ELSE Ret([Flush(Write(AfterRead(c, r.rest), Raw(C0S0Bytes(newChunkC0S0))))
                      EXCEPT !.state = StateVersionSent], "nil")
          : r \in {readC0S0(c.bufr, closed)}})

handshakeC0(c, closed, wok) ==
    Only({IF r.err # "nil" THEN Ret(AfterRead(c, r.rest), r.err)
          ELSE IF r.chunk.version > 3 THEN Ret(AfterRead(c, r.rest), "unsupported rtmp version")
          ELSE IF ~wok THEN Ret(Write(AfterRead(c, r.rest), Raw(C0S0Bytes(newChunkC0S0))), "write error")
          ELSE Ret([Flush(Write(AfterRead(c, r.rest), Raw(C0S0Bytes(newChunkC0S0))))
                      EXCEPT !.state = StateVersionSent], "nil")
          : r \in {readC0S0(c.bufr, closed)}})

\* sendS1S2 without the Flush of S2
sendS1S2_S2NotFlushed(c, s1, s2, failAt) ==
    IF failAt = 1 THEN Ret(Write([c EXCEPT !.s1 = s1], Raw(C1S1Bytes(s1))), "write error")
    ELSE Ret(Write([Flush(Write([c EXCEPT !.s1 = s1], Raw(C1S1Bytes(s1)))) EXCEPT !.state = StateAckSent],
                   Raw(C2S2Bytes(s2))), "nil")

\* the rest of handshake after C1 was read into c.c1: S1 is sent, then S2
sendS1S2(c, s1, s2, failAt) ==
    IF failAt = 1 THEN Ret(Write([c EXCEPT !.s1 = s1], Raw(C1S1Bytes(s1))), "write error")
    ELSE IF failAt = 2
    THEN Ret(Write([Flush(Write([c EXCEPT !.s1 = s1], Raw(C1S1Bytes(s1)))) EXCEPT !.state = StateAckSent],
                   Raw(C2S2Bytes(s2))), "write error")
    ELSE Ret(Flush(Write([Flush(Write([c EXCEPT !.s1 = s1], Raw(C1S1Bytes(s1)))) EXCEPT !.state = StateAckSent],
                         Raw(C2S2Bytes(s2)))), "nil")

\* handshakeC1 setting AckSent as soon as C1 is read
handshakeC1_StateBeforeS1(c, closed, randomBytes, now, failAt) ==
    Only({IF r.err # "nil" THEN Ret(AfterRead(c, r.rest), r.err)
          ELSE sendS1S2([c EXCEPT !.bufr = r.rest, !.c1 = r.chunk, !.state = StateAckSent],
                        newChunkC1S1(0, randomBytes), newChunkC2S2(r.chunk, now), failAt)
          : r \in {readC1S1(c.bufr, closed)}})

handshakeC1(c, closed, randomBytes, now, failAt) ==
    Only({IF r.err # "nil" THEN Ret(AfterRead(c, r.rest), r.err)
          ELSE sendS1S2([c EXCEPT !.bufr = r.rest, !.c1 = r.chunk],
                        newChunkC1S1(0, randomBytes), newChunkC2S2(r.chunk, now), failAt)
          : r \in {readC1S1(c.bufr, closed)}})

\* handshakeC2 comparing only the lengths of the echo and of the random bytes
handshakeC2_LengthOnly(c, closed) ==
    Only({IF r.err # "nil" THEN Ret(AfterRead(c, r.rest), r.err)
          ELSE IF Len(r.chunk.randomEcho) # Len(c.s1.randomBytes)
          THEN Ret(AfterRead(c, r.rest), "random echo doesn't match")
          ELSE Ret([AfterRead(c, r.rest) EXCEPT !.state = StateHandshakeDone], "nil")
          : r \in {readC2S2(c.bufr, closed)}})

handshakeC2(c, closed) ==
    Only({IF r.err # "nil" THEN Ret(AfterRead(c, r.rest), r.err)
          ELSE IF r.chunk.randomEcho # c.s1.randomBytes
          THEN Ret(AfterRead(c, r.rest), "random echo doesn't match")
          ELSE Ret([AfterRead(c, r.rest) EXCEPT !.state = StateHandshakeDone], "nil")
          : r \in {readC2S2(c.bufr, closed)}})

(***************************************************************************)
(* conn.handleCommandMessageAMF0.  c.bufr stands right after the chunk     *)
(* header; wok tells whether the Flush of the reply succeeds.              *)
(***************************************************************************)
Has0xC3(payload) == \E i \in 1..Len(payload) : payload[i] = 195

\* handleConnect reading one extra byte for every 0xC3 of the payload
readContinuation_PerC3(c, payload, closed) ==
    IF Has0xC3(payload)
    THEN ReadAtLeast(c.bufr, Cardinality({i \in 1..Len(payload) : payload[i] = 195}), closed)
    ELSE [err |-> "nil", data |-> <<>>, rest |-> c.bufr]

\* the extra byte handleConnect reads when the payload holds 0xC3
readContinuation(c, payload, closed) ==
    IF Has0xC3(payload) THEN ReadByte(c.bufr, closed)
    ELSE [err |-> "nil", data |-> <<>>, rest |-> c.bufr]

\* the five replies to connect, each as the outcome of its builder
connectReplies(transactionID) ==
    <<GenerateWindowAcknowledgementSizeChunk(WindowAcknowledgementSize),
      GenerateSetPeerBandwidthChunk(PeerBandWidth, PeerBandwidthLimitTypeDynamic),
      GenerateUserStreamBegin(0),
      GenerateSetChunkSize(ConnectChunkSize),
      GenerateConnectResult(transactionID)>>

\* the first of the builder outcomes g that is an error
FirstFailed(g) == CHOOSE i \in 1..Len(g) : g[i].err # "nil" /\ \A j \in 1..(i - 1) : g[j].err = "nil"

\* what the builder outcome g puts into bufw
Written(g) == IF "msg" \in DOMAIN g THEN g.msg ELSE Raw(g.bytes)

\* handleConnect setting the state before the Flush
handleConnect_StateBeforeFlush(c, payload, transactionID, closed, wok) ==
    Only({IF b.err # "nil" THEN Ret(AfterRead(c, b.rest), b.err)
          ELSE IF \E i \in 1..5 : g[i].err # "nil"
          THEN Only({Ret(WriteAll(AfterRead(c, b.rest), [j \in 1..(i - 1) |-> Written(g[j])]), g[i].err)
                     : i \in {FirstFailed(g)}})
          ELSE IF ~wok
          THEN Ret([WriteAll(AfterRead(c, b.rest), [j \in 1..5 |-> Written(g[j])])
                      EXCEPT !.state = StateConnectResponseSent], "write error")
          ELSE Ret(Flush([WriteAll(AfterRead(c, b.rest), [j \in 1..5 |-> Written(g[j])])
                            EXCEPT !.state = StateConnectResponseSent]), "nil")
          : b \in {readContinuation(c, payload, closed)}, g \in {connectReplies(transactionID)}})

handleConnect(c, payload, transactionID, closed, wok) ==
    Only({IF b.err # "nil" THEN Ret(AfterRead(c, b.rest), b.err)
          ELSE IF \E i \in 1..5 : g[i].err # "nil"
          THEN Only({Ret(WriteAll(AfterRead(c, b.rest), [j \in 1..(i - 1) |-> Written(g[j])]), g[i].err)
                     : i \in {FirstFailed(g)}})
          ELSE IF ~wok
          THEN Ret(WriteAll(AfterRead(c, b.rest), [j \in 1..5 |-> Written(g[j])]), "write error")
          ELSE Ret([Flush(WriteAll(AfterRead(c, b.rest), [j \in 1..5 |-> Written(g[j])]))
                      EXCEPT !.state = StateConnectResponseSent], "nil")
          : b \in {readContinuation(c, payload, closed)}, g \in {connectReplies(transactionID)}})

\* handleReleaseStream asking for a created stream
handleReleaseStream_NeedsCreateStream(c) ==
    IF c.state < StateSentCreateStreamResponse
    THEN Ret(c, "connect response should be sent before receiving a releaseStream command")
    ELSE Ret(c, "nil")

handleReleaseStream(c) ==
    IF c.state < StateConnectResponseSent
    THEN Ret(c, "connect response should be sent before receiving a releaseStream command")
    ELSE Ret(c, "nil")

\* handleFCPublish without the Flush of its reply
handleFCPublish_NoFlush(c, buf, transactionID, wok) ==
    Only({IF v.err # "nil" THEN Ret(c, v.err)
          ELSE Only({IF sn.err # "nil" THEN Ret(c, sn.err)
                     ELSE Only({IF msg.err # "nil" THEN Ret(c, msg.err)
                                ELSE Ret([Write(c, msg.msg) EXCEPT !.streamName = sn.val], "nil")
                                : msg \in {GenerateOnFCPublishMessage(transactionID, sn.val)}})
                     : sn \in {amfReadString(v.rest)}})
          : v \in {amfReadValue(buf)}})

handleFCPublish(c, buf, transactionID, wok) ==
    Only({IF v.err # "nil" THEN Ret(c, v.err)
          ELSE Only({IF sn.err # "nil" THEN Ret(c, sn.err)
                     ELSE Only({IF msg.err # "nil" THEN Ret(c, msg.err)
                                ELSE IF ~wok THEN Ret(Write(c, msg.msg), "write error")
                                ELSE Ret([Flush(Write(c, msg.msg)) EXCEPT !.streamName = sn.val], "nil")
                                : msg \in {GenerateOnFCPublishMessage(transactionID, sn.val)}})
                     : sn \in {amfReadString(v.rest)}})
          : v \in {amfReadValue(buf)}})

\* handleCreateStream without the assignment of the state
handleCreateStream_KeepsState(c, transactionID, wok) ==
    Only({IF msg.err # "nil" THEN Ret(c, msg.err)
          ELSE IF ~wok THEN Ret(Write(c, msg.msg), "write error")
          ELSE Ret(Flush(Write(c, msg.msg)), "nil")
          : msg \in {CreateStreamResponseMessage(transactionID)}})

handleCreateStream(c, transactionID, wok) ==
    Only({IF msg.err # "nil" THEN Ret(c, msg.err)
          ELSE IF ~wok THEN Ret(Write(c, msg.msg), "write error")
          ELSE Ret([Flush(Write(c, msg.msg)) EXCEPT !.state = StateSentCreateStreamResponse], "nil")
          : msg \in {CreateStreamResponseMessage(transactionID)}})

\* handlePublish writing onStatus before Stream Begin
handlePublish_StatusFirst(c, transactionID, wok) ==
    IF c.state < StateSentCreateStreamResponse
    THEN Ret(c, "connect response should be sent before receiving a releaseStream command")
    ELSE IF c.state = StatePublishingContent THEN Ret(c, "nil")
    ELSE Only({IF usb.err # "nil" THEN Ret(c, usb.err)
               ELSE IF msg.err # "nil" THEN Ret(Write(c, Raw(usb.bytes)), msg.err)
               ELSE IF ~wok THEN Ret(WriteAll(c, <<msg.msg, Raw(usb.bytes)>>), "write error")
               ELSE Ret([Flush(WriteAll(c, <<msg.msg, Raw(usb.bytes)>>)) EXCEPT !.state = StatePublishingContent],
                        "nil")
               : usb \in {GenerateUserStreamBegin(1)},
                 msg \in {CreateOnStatusPublishStartMessage(transactionID, c.streamName)}})

\* handlePublish without the test of the state
handlePublish_NoStateCheck(c, transactionID, wok) ==
    IF c.state = StatePublishingContent THEN Ret(c, "nil")
    ELSE Only({IF usb.err # "nil" THEN Ret(c, usb.err)
               ELSE IF msg.err # "nil" THEN Ret(Write(c, Raw(usb.bytes)), msg.err)
               ELSE IF ~wok THEN Ret(WriteAll(c, <<Raw(usb.bytes), msg.msg>>), "write error")
               ELSE Ret([Flush(WriteAll(c, <<Raw(usb.bytes), msg.msg>>)) EXCEPT !.state = StatePublishingContent],
                        "nil")
               : usb \in {GenerateUserStreamBegin(1)},
                 msg \in {CreateOnStatusPublishStartMessage(transactionID, c.streamName)}})

\* handlePublish answering a publish in PublishingContent like the first one
handlePublish_Republishes(c, transactionID, wok) ==
    IF c.state < StateSentCreateStreamResponse
    THEN Ret(c, "connect response should be sent before receiving a releaseStream command")
    ELSE Only({IF usb.err # "nil" THEN Ret(c, usb.err)
               ELSE IF msg.err # "nil" THEN Ret(Write(c, Raw(usb.bytes)), msg.err)
               ELSE IF ~wok THEN Ret(WriteAll(c, <<Raw(usb.bytes), msg.msg>>), "write error")
               ELSE Ret([Flush(WriteAll(c, <<Raw(usb.bytes), msg.msg>>)) EXCEPT !.state = StatePublishingContent],
                        "nil")
               : usb \in {GenerateUserStreamBegin(1)},
                 msg \in {CreateOnStatusPublishStartMessage(transactionID, c.streamName)}})

handlePublish(c, transactionID, wok) ==
    IF c.state < StateSentCreateStreamResponse
    THEN Ret(c, "connect response should be sent before receiving a releaseStream command")
    ELSE IF c.state = StatePublishingContent THEN Ret(c, "nil")
    ELSE Only({IF usb.err # "nil" THEN Ret(c, usb.err)
               ELSE IF msg.err # "nil" THEN Ret(Write(c, Raw(usb.bytes)), msg.err)
               ELSE IF ~wok THEN Ret(WriteAll(c, <<Raw(usb.bytes), msg.msg>>), "write error")
               ELSE Ret([Flush(WriteAll(c, <<Raw(usb.bytes), msg.msg>>)) EXCEPT !.state = StatePublishingContent],
                        "nil")
               : usb \in {GenerateUserStreamBegin(1)},
                 msg \in {CreateOnStatusPublishStartMessage(transactionID, c.streamName)}})

\* the dispatch returning an error for a command name it has no case for
dispatchCommand_UnknownIsError(c, p, commandName, transactionID, closed, wok) ==
    CASE commandName.val = StrConnect -> handleConnect(c, p.data, transactionID.val, closed, wok)
      [] commandName.val = StrReleaseStream -> handleReleaseStream(c)
      [] commandName.val = StrFCPublish -> handleFCPublish(c, transactionID.rest, transactionID.val, wok)
      [] commandName.val = StrCreateStream -> handleCreateStream(c, transactionID.val, wok)
      [] commandName.val = StrPublish -> handlePublish(c, transactionID.val, wok)
      [] OTHER -> Ret(c, "unknown command")

\* the dispatch on the command name, after the payload p was read
dispatchCommand(c, p, commandName, transactionID, closed, wok) ==
    CASE commandName.val = StrConnect -> handleConnect(c, p.data, transactionID.val, closed, wok)
      [] commandName.val = StrReleaseStream -> handleReleaseStream(c)
      [] commandName.val = StrFCPublish -> handleFCPublish(c, transactionID.rest, transactionID.val, wok)
      [] commandName.val = StrCreateStream -> handleCreateStream(c, transactionID.val, wok)
      [] commandName.val = StrPublish -> handlePublish(c, transactionID.val, wok)
      [] OTHER -> Ret(c, "nil")

handleCommandMessageAMF0(c, header, closed, wok) ==
    Only({IF p.err # "nil" THEN Ret(AfterRead(c, p.rest), p.err)
          ELSE Only({IF commandName.err # "nil" THEN Ret(AfterRead(c, p.rest), commandName.err)
                     ELSE Only({IF transactionID.err # "nil" THEN Ret(AfterRead(c, p.rest), transactionID.err)
                                ELSE dispatchCommand(AfterRead(c, p.rest), p, commandName, transactionID,
                                                     closed, wok)
                                : transactionID \in {amfReadDouble(commandName.rest)}})
                     : commandName \in {amfReadString(p.data)}})
          : p \in {ReadAtLeast(c.bufr, header.MessageHeader.MessageLength, closed)}})

(***************************************************************************)
(* conn.readChunk.  A decode of a payload shorter than the bytes it        *)
(* indexes is a run-time panic.                                            *)
(***************************************************************************)
\* message types whose payload is read and dropped, falling out of the switch
DrainedTypes ==
    {MessageUserControl, MessageAudio, MessageVideo, MessageDataAMF3, MessageCommandAMF3,
     MessageSharedObjectAMF3, MessageDataAMF0, MessageSharedObjectAMF0, MessageAggregate}

\* message types whose payload is decoded with binary.BigEndian.Uint32(payload)
Uint32Types == {MessageAbort, MessageAcknowledgement, MessageAcknowledgementWindowSize}

\* the message types readChunk has a case for
KnownTypes ==
    DrainedTypes \cup Uint32Types \cup {MessageSetChunkSize, MessageSetPeerBandwidth, MessageCommandAMF0}

\* readPayload leaving the payload of a message of unknown type unread
readPayload_KeepsUnknown(c, header, closed) ==
    Only({IF header.MessageHeader.MessageTypeID \notin KnownTypes THEN Ret(c, "nil")
          ELSE IF p.err # "nil" THEN Ret(AfterRead(c, p.rest), p.err)
          ELSE IF header.MessageHeader.MessageTypeID \in Uint32Types /\ header.MessageHeader.MessageLength < 4
          THEN Ret(AfterRead(c, p.rest), "panic")
          ELSE IF header.MessageHeader.MessageTypeID = MessageSetPeerBandwidth
                  /\ header.MessageHeader.MessageLength < 5
          THEN Ret(AfterRead(c, p.rest), "panic")
          ELSE Ret(AfterRead(c, p.rest), "nil")
          : p \in {ReadAtLeast(c.bufr, header.MessageHeader.MessageLength, closed)}})

readPayload(c, header, closed) ==
    Only({IF p.err # "nil" THEN Ret(AfterRead(c, p.rest), p.err)
          ELSE IF header.MessageHeader.MessageTypeID \in Uint32Types /\ header.MessageHeader.MessageLength < 4
          THEN Ret(AfterRead(c, p.rest), "panic")
          ELSE IF header.MessageHeader.MessageTypeID = MessageSetPeerBandwidth
                  /\ header.MessageHeader.MessageLength < 5
          THEN Ret(AfterRead(c, p.rest), "panic")
          ELSE Ret(AfterRead(c, p.rest), "nil")
          : p \in {ReadAtLeast(c.bufr, header.MessageHeader.MessageLength, closed)}})

\* readSetChunkSize skipping a payload whose declared length is not 4
readSetChunkSize_SkipsOtherLength(c, header, closed) ==
    IF header.MessageHeader.MessageLength # 4
    THEN Only({IF p.err # "nil" THEN Ret(AfterRead(c, p.rest), p.err) ELSE Ret(AfterRead(c, p.rest), "nil")
               : p \in {ReadAtLeast(c.bufr, header.MessageHeader.MessageLength, closed)}})
    ELSE Only({IF p.err # "nil" THEN Ret(AfterRead(c, p.rest), p.err)
               ELSE Ret([c EXCEPT !.bufr = p.rest, !.chunkSize = Uint32BE(p.data)], "nil")
               : p \in {ReadAtLeast(c.bufr, 4, closed)}})

readSetChunkSize(c, header, closed) ==
    IF header.MessageHeader.MessageLength # 4
    THEN Ret(c, "the payload length of Set Chunk Size command should be 4")
    ELSE Only({IF p.err # "nil" THEN Ret(AfterRead(c, p.rest), p.err)
               ELSE Ret([c EXCEPT !.bufr = p.rest, !.chunkSize = Uint32BE(p.data)], "nil")
               : p \in {ReadAtLeast(c.bufr, 4, closed)}})

\* readMessage handing AMF0 data messages to the command handler
readMessage_DataAsCommand(c, closed, wok) ==
    CASE c.header.MessageHeader.MessageTypeID = MessageSetChunkSize -> readSetChunkSize(c, c.header, closed)
      [] c.header.MessageHeader.MessageTypeID \in {MessageCommandAMF0, MessageDataAMF0} ->
           handleCommandMessageAMF0(c, c.header, closed, wok)
      [] OTHER -> readPayload(c, c.header, closed)

\* the switch of readChunk on the message type of the header just read into c.header
readMessage(c, closed, wok) ==
    CASE c.header.MessageHeader.MessageTypeID = MessageSetChunkSize -> readSetChunkSize(c, c.header, closed)
      [] c.header.MessageHeader.MessageTypeID = MessageCommandAMF0 ->
           handleCommandMessageAMF0(c, c.header, closed, wok)
      [] OTHER -> readPayload(c, c.header, closed)

readChunk(c, closed, wok) ==
    Only({IF h.err = "EOF"
          THEN Ret([c EXCEPT !.bufr = h.rest, !.header = h.ch, !.nread = 0, !.gotEOF = TRUE], "nil")
          ELSE IF h.err # "nil"
          THEN Ret([c EXCEPT !.bufr = h.rest, !.header = h.ch, !.nread = 0, !.gotEOF = FALSE], h.err)
          ELSE Only({Ret([r.c EXCEPT !.nread = Len(h.rest) - Len(r.c.bufr)], r.err)
                     : r \in {readMessage([c EXCEPT !.bufr = h.rest, !.header = h.ch, !.nread = 0,
                                                    !.gotEOF = FALSE], closed, wok)}})
          : h \in {readChunkHeader(c.bufr, closed)}})

(***************************************************************************)
(* conn.serve: what it does with the outcome of handshake and of one       *)
(* readChunk.  A panic is not recovered: it ends the task.                 *)
(***************************************************************************)
serveHandshake(r, next) ==
    IF r.err = "nil" /\ next = "loop" THEN [r.c EXCEPT !.pc = next, !.c1 = NoC1S1, !.s1 = NoC1S1]
    ELSE IF r.err = "nil" THEN [r.c EXCEPT !.pc = next]
    ELSE [r.c EXCEPT !.pc = "returned", !.ret = "err", !.netClosed = TRUE, !.c1 = NoC1S1, !.s1 = NoC1S1]

serveLoop(r) ==
    IF r.err = "panic" THEN [r.c EXCEPT !.pc = "panicked"]
    ELSE IF r.err = "EOF" THEN [r.c EXCEPT !.pc = "returned", !.ret = "nil", !.netClosed = TRUE]
    ELSE IF r.err # "nil" THEN [r.c EXCEPT !.pc = "returned", !.ret = "err"]
    ELSE r.c

(***************************************************************************)
(* The peer: the byte strings it may send.                                 *)
(***************************************************************************)
\* a random field that differs from the others of its family at p
Rnd(p, v) == [i \in 1..RandomLen |-> IF i = p THEN v ELSE i % 251]

\* outcomes of rand.Read in newChunkC1S1
S1Randoms == {Rnd(1, 0), Rnd(RandomLen, 255)}

\* outcomes of time.Now in newChunkC2S2 (32-bit values are kept below 2^31)
NowChoices == {0, 2147483647}

C0Versions == {0, 3, 4, 255}

PeerC1 ==
    {C1S1Bytes([time |-> 0, randomBytes |-> Rnd(2, 7)]),
     C1S1Bytes([time |-> 16909060, randomBytes |-> Rnd(RandomLen, 9)])}

\* a C1 cut short
PeerShortC1 == {Take(C1S1Bytes([time |-> 0, randomBytes |-> Rnd(2, 7)]), HandshakeChunkLen - 1)}

Perturb(b, i) == [b EXCEPT ![i] = (@ + 1) % 256]

\* the C2 packets a peer that has received the S1 bytes s1 may answer: the
\* echo, the echo with another time2, the echo with one byte changed, a short one
PeerC2(s1) == {s1, Perturb(s1, 5), Perturb(s1, 9), Perturb(s1, HandshakeChunkLen), Take(s1, HandshakeChunkLen - 1)}

AmfString(str) == <<AMF0StringMarker>> \o PutUint16BE(Len(str)) \o str
AmfNumber(b8) == <<AMF0NumberMarker>> \o b8
AmfNull == <<AMF0NullMarker>>

\* the doubles 1.0 and 2.0
Tx1 == <<63, 240, 0, 0, 0, 0, 0, 0>>
Tx2 == <<64, 0, 0, 0, 0, 0, 0, 0>>

StrPlay == <<112, 108, 97, 121>>
StrLive == <<108, 105, 118, 101>>
StrKey == <<107>>

Fill(n, v) == [i \in 1..n |-> v]

\* one chunk on the wire: the header of a message of declared length ml, and body
Chunk(fmt, csid, ts, ml, ty, body) ==
    genChunkHeader([BasicHeader |-> [FMT |-> fmt, ChunkStreamID |-> csid],
                    MessageHeader |-> [Timestamp |-> IF fmt = 0 THEN ts ELSE 0,
                                       TimestampDelta |-> IF fmt = 0 THEN 0 ELSE ts,
                                       MessageLength |-> ml, MessageTypeID |-> ty,
                                       MessageStreamID |-> 0],
                    ExtendedTimestamp |-> 0]).bytes \o body

Command(payload) == Chunk(0, 3, 0, Len(payload), MessageCommandAMF0, payload)

ConnectPayload == AmfString(StrConnect) \o AmfNumber(Tx1) \o <<3, 0, 0, 9>>

\* a connect of 130 bytes sent with chunk size 128: the continuation header
\* 0xC3 (format 3, chunk stream 3) follows the first 128 bytes
LongConnect ==
    Chunk(0, 3, 0, 130, MessageCommandAMF0,
          ConnectPayload \o Fill(128 - Len(ConnectPayload), 0) \o <<195>> \o Fill(2, 0))

CmdConnect == Command(ConnectPayload)
CmdReleaseStream == Command(AmfString(StrReleaseStream) \o AmfNumber(Tx2) \o AmfNull \o AmfString(StrKey))
CmdFCPublish == Command(AmfString(StrFCPublish) \o AmfNumber(Tx2) \o AmfNull \o AmfString(StrKey))
CmdCreateStream == Command(AmfString(StrCreateStream) \o AmfNumber(Tx2) \o AmfNull)
CmdPublish ==
    Command(AmfString(StrPublish) \o AmfNumber(Tx2) \o AmfNull \o AmfString(StrKey) \o AmfString(StrLive))
CmdPlay == Command(AmfString(StrPlay) \o AmfNumber(Tx1) \o AmfNull)

\* commands whose payload holds the byte 0xC3: a connect with two of them,
\* an FCPublish whose stream name is that byte, a play that ends with it
CmdConnectC3C3 == Command(ConnectPayload \o <<195, 195>>)
CmdFCPublishC3 == Command(AmfString(StrFCPublish) \o AmfNumber(Tx2) \o AmfNull \o AmfString(<<195>>))
CmdPlayC3 == Command(AmfString(StrPlay) \o AmfNumber(Tx1) \o <<195>>)

PeerCommands ==
    {CmdConnect, LongConnect, CmdReleaseStream, CmdFCPublish, CmdCreateStream, CmdPublish, CmdPlay,
     Command(<<>>), CmdConnectC3C3, CmdFCPublishC3, CmdPlayC3}

PeerControl ==
    {Chunk(0, 2, 0, 4, MessageSetChunkSize, PutUint32BE(256)),
     Chunk(0, 2, 0, 3, MessageSetChunkSize, <<0, 1, 0>>),
     \* a chunk size with the reserved top bit set
     Chunk(0, 2, 0, 4, MessageSetChunkSize, <<128, 0, 1, 0>>),
     Chunk(0, 2, 0, 4, MessageAbort, PutUint32BE(4)),
     Chunk(0, 2, 0, 2, MessageAbort, <<0, 4>>),
     Chunk(0, 2, 0, 4, MessageAcknowledgement, PutUint32BE(1000)),
     Chunk(0, 2, 0, 0, MessageAcknowledgementWindowSize, <<>>),
     Chunk(0, 2, 0, 5, MessageSetPeerBandwidth, PutUint32BE(2500000) \o <<2>>),
     Chunk(0, 2, 0, 4, MessageSetPeerBandwidth, PutUint32BE(2500000)),
     Chunk(0, 2, 0, 6, MessageUserControl, <<0, 3, 0, 0, 0, 1>>)}

\* a 200-byte audio message sent with chunk size 128, in two chunks
LongAudio == Chunk(0, 4, 10, 200, MessageAudio, Fill(128, 170) \o <<196>> \o Fill(72, 170))

PeerMedia ==
    {Chunk(0, 4, 10, 3, MessageAudio, <<175, 1, 2>>),
     LongAudio,
     Chunk(1, 70, 5, 2, MessageVideo, <<23, 1>>),
     \* a data message on chunk stream 1000, in the 3-byte form of the basic
     \* header (low six bits 1), with an extended timestamp
     <<1>> \o Drop(Chunk(0, 1000, TimestampSentinel, 2, MessageDataAMF0, <<5, 5>>), 1),
     Chunk(2, 4, 5, 0, 0, <<>>),
     Chunk(3, 4, 0, 0, 0, <<>>),
     \* the next audio message on chunk stream 4, its header left to the previous one
     Chunk(3, 4, 0, 0, 0, <<175, 3, 4>>),
     Chunk(0, 5, 0, 2, 99, <<1, 2>>),
     Chunk(0, 6, 0, 1, MessageAggregate, <<0>>),
     Chunk(0, 6, 0, 1, MessageDataAMF3, <<0>>),
     \* the start of a chunk header
     <<3, 0, 0>>}

PeerChunks == PeerCommands \cup PeerControl \cup PeerMedia

(***************************************************************************)
(* State: the connection, and the peer (closed: it has closed its side;    *)
(* sends: the number of chunks it has sent after the handshake; c1: the C1 *)
(* bytes it has sent); the codec under test (codec), the accept loop (srv) *)
(* and two connections served side by side (pair), each at rest while the  *)
(* connection runs.                                                        *)
(***************************************************************************)
VARIABLES conn, peer, codec, srv, pair

vars == <<conn, peer, codec, srv, pair>>

\* no codec run
NoCodec ==
    [pc |-> "off", h |-> NoChunkHeader, enc |-> [err |-> "nil", bytes |-> <<>>],
     dec |-> [err |-> "nil", ch |-> NoChunkHeader, rest |-> <<>>],
     c1 |-> <<>>, now |-> 0, s2 |-> <<>>, in |-> <<>>, out |-> <<>>]

\* no accept loop
NoServe ==
    [pc |-> "off", tempDelay |-> 0, run |-> 0, slept |-> 0, calls |-> 0, last |-> "none",
     tasks |-> <<>>, ret |-> "none"]

NoPeer == [closed |-> FALSE, sends |-> 0, c1 |-> <<>>]

\* no pair of connections
NoPair == [conns |-> <<>>, peers |-> <<>>]

Init ==
    /\ conn = newConn
    /\ peer = NoPeer
    /\ codec = NoCodec
    /\ srv = NoServe
    /\ pair = NoPair

Running == conn.pc \notin {"returned", "panicked"}

\* the peer sends bytes
PeerSend(bytes) ==
    /\ ~peer.closed
    /\ conn' = [conn EXCEPT !.bufr = @ \o bytes]

\* the peer sends while the serve task waits in a read for input not yet sent
PeerSendC0 ==
    /\ conn.pc = "handshakeC0"
    /\ handshakeC0(conn, FALSE, TRUE).err = "block"
    /\ \E v \in C0Versions : PeerSend(<<v>>)
    /\ UNCHANGED peer
    /\ UNCHANGED <<codec, srv, pair>>

PeerSendC1 ==
    /\ conn.pc = "handshakeC1"
    /\ conn.bufr = <<>>
    /\ \E b \in PeerC1 \cup PeerShortC1 : PeerSend(b) /\ peer' = [peer EXCEPT !.c1 = b]
    /\ UNCHANGED <<codec, srv, pair>>

PeerSendC2 ==
    /\ conn.pc = "handshakeC2"
    /\ conn.bufr = <<>>
    /\ \E b \in PeerC2(conn.sent[2].bytes) : PeerSend(b)
    /\ UNCHANGED peer
    /\ UNCHANGED <<codec, srv, pair>>

PeerSendChunk ==
    /\ conn.pc = "loop"
    /\ peer.sends < MaxSends
    /\ readChunk(conn, FALSE, TRUE).err = "block"
    /\ \E b \in PeerChunks : PeerSend(b)
    /\ peer' = [peer EXCEPT !.sends = @ + 1]
    /\ UNCHANGED <<codec, srv, pair>>

PeerClose ==
    /\ Running
    /\ ~peer.closed
    /\ peer' = [peer EXCEPT !.closed = TRUE]
    /\ UNCHANGED conn
    /\ UNCHANGED <<codec, srv, pair>>

HandshakeC0 ==
    /\ conn.pc = "handshakeC0"
    /\ \E wok \in BOOLEAN :
         \E r \in {handshakeC0(conn, peer.closed, wok)} :
            r.err # "block" /\ conn' = serveHandshake(r, "handshakeC1")
    /\ UNCHANGED peer
    /\ UNCHANGED <<codec, srv, pair>>

HandshakeC1 ==
    /\ conn.pc = "handshakeC1"
    /\ \E randomBytes \in S1Randoms, now \in NowChoices, failAt \in 0..2 :
         \E r \in {handshakeC1(conn, peer.closed, randomBytes, now, failAt)} :
            r.err # "block" /\ conn' = serveHandshake(r, "handshakeC2")
    /\ UNCHANGED peer
    /\ UNCHANGED <<codec, srv, pair>>

HandshakeC2 ==
    /\ conn.pc = "handshakeC2"
    /\ \E r \in {handshakeC2(conn, peer.closed)} :
          r.err # "block" /\ conn' = serveHandshake(r, "loop")
    /\ UNCHANGED peer
    /\ UNCHANGED <<codec, srv, pair>>

ReadChunk ==
    /\ conn.pc = "loop"
    /\ \E wok \in BOOLEAN :
         \E r \in {readChunk(conn, peer.closed, wok)} :
            r.err # "block" /\ conn' = serveLoop(r)
    /\ UNCHANGED peer
    /\ UNCHANGED <<codec, srv, pair>>

Next ==
    \/ PeerSendC0
    \/ PeerSendC1
    \/ PeerSendC2
    \/ PeerSendChunk
    \/ PeerClose
    \/ HandshakeC0
    \/ HandshakeC1
    \/ HandshakeC2
    \/ ReadChunk

Spec == Init /\ [][Next]_vars

(***************************************************************************)
(* The session after a completed handshake: the connection as serve leaves *)
(* it when handshake has returned nil for a peer that sent C0 = 3, a C1    *)
(* and the echo of S1, and the chunks that follow.                         *)
(***************************************************************************)
\* c when the peer has sent bytes
Received(c, bytes) == [c EXCEPT !.bufr = @ \o bytes]

SessionC1 == C1S1Bytes([time |-> 16909060, randomBytes |-> Rnd(RandomLen, 9)])

AfterC0 == serveHandshake(handshakeC0(Received(newConn, <<3>>), FALSE, TRUE), "handshakeC1")

AfterC1 == serveHandshake(handshakeC1(Received(AfterC0, SessionC1), FALSE, Rnd(1, 0), 0, 0), "handshakeC2")

AfterC2 == serveHandshake(handshakeC2(Received(AfterC1, C1S1Bytes(AfterC1.s1)), FALSE), "loop")

InitSession ==
    /\ conn = AfterC2
    /\ peer = [closed |-> FALSE, sends |-> 0, c1 |-> SessionC1]
    /\ codec = NoCodec
    /\ srv = NoServe
    /\ pair = NoPair

SessionSendChunk ==
    /\ conn.pc = "loop"
    /\ peer.sends < MaxSessionSends
    /\ readChunk(conn, FALSE, TRUE).err = "block"
    /\ \E b \in PeerChunks : PeerSend(b)
    /\ peer' = [peer EXCEPT !.sends = @ + 1]
    /\ UNCHANGED <<codec, srv, pair>>

NextSession ==
    \/ SessionSendChunk
    \/ PeerClose
    \/ ReadChunk

SpecSession == InitSession /\ [][NextSession]_vars

(***************************************************************************)
(* The session of a publisher: the connection as serve leaves it when,     *)
(* after the handshake, connect, releaseStream, FCPublish, createStream    *)
(* and publish have been read and answered, and the chunks that follow.    *)
(***************************************************************************)
\* c after serve has read the chunk bytes from the peer, every flush succeeding
AfterChunk(c, bytes) == serveLoop(readChunk(Received(c, bytes), FALSE, TRUE))

AfterConnect == AfterChunk(AfterC2, CmdConnect)

AfterFCPublish == AfterChunk(AfterChunk(AfterConnect, CmdReleaseStream), CmdFCPublish)

AfterPublish == AfterChunk(AfterChunk(AfterFCPublish, CmdCreateStream), CmdPublish)

InitPublishing ==
    /\ conn = AfterPublish
    /\ peer = [closed |-> FALSE, sends |-> 0, c1 |-> SessionC1]
    /\ codec = NoCodec
    /\ srv = NoServe
    /\ pair = NoPair

SpecPublishing == InitPublishing /\ [][NextSession]_vars

(***************************************************************************)
(* The codecs on their own.  codec holds one run: a chunk header h, its    *)
(* encoding enc and the decoding dec of that encoding; or a C1 packet c1,  *)
(* the outcome now of time.Now, and the S2 built from the parsed c1; or the *)
(* input in of another function of the codec and what it gave, out.        *)
(***************************************************************************)
\* a header of format fmt that holds what the format carries on the wire
HeaderOf(fmt, csid, ts, ml, ty, sid) ==
    [BasicHeader |-> [FMT |-> fmt, ChunkStreamID |-> csid],
     MessageHeader |-> [Timestamp |-> IF fmt = 0 THEN ts ELSE 0,
                        TimestampDelta |-> IF fmt \in {1, 2} THEN ts ELSE 0,
                        MessageLength |-> IF fmt \in {0, 1} THEN ml ELSE 0,
                        MessageTypeID |-> IF fmt \in {0, 1} THEN ty ELSE 0,
                        MessageStreamID |-> IF fmt = 0 THEN sid ELSE 0],
     ExtendedTimestamp |-> IF fmt \in {0, 1, 2} /\ ts = TimestampSentinel THEN ts ELSE 0]

CodecChunkStreamIDs == {2, 3, 63, 64, 319, 320, 65598, 65599}

CodecHeaders ==
    {HeaderOf(fmt, csid, ts, ml, MessageCommandAMF0, sid) :
        fmt \in 0..3, csid \in CodecChunkStreamIDs, ts \in {0, 1000, TimestampSentinel},
        ml \in {0, 184}, sid \in {0, 1}}

\* C1 packets: the time, the four bytes after it, the random field
CodecC1s ==
    {t \o z \o r : t \in {<<0, 0, 0, 0>>, <<1, 2, 3, 4>>, <<128, 0, 0, 0>>, <<255, 255, 255, 255>>},
                   z \in {<<0, 0, 0, 0>>, <<9, 8, 7, 6>>},
                   r \in {Rnd(1, 0), Rnd(2, 7), Rnd(RandomLen, 255)}}

\* 32-bit values, the ones with the top bit set in two's complement
CodecUint32s == {0, 1, 128, 4096, 16909060, 2147483647, -2147483647 - 1, -1}

\* the calls of the builders of control chunks: the builder, its 32-bit
\* argument and, for Set Peer Bandwidth, the limit type
CodecBuilderCalls ==
    {[name |-> b, n |-> n, limitType |-> 0] :
        b \in {"GenerateSetChunkSize", "GenerateWindowAcknowledgementSizeChunk", "GenerateUserStreamBegin"},
        n \in CodecUint32s}
    \cup {[name |-> "GenerateSetPeerBandwidthChunk", n |-> n, limitType |-> t] :
             n \in CodecUint32s, t \in {0, 1, 2, 255}}

callBuilder(call) ==
    CASE call.name = "GenerateSetChunkSize" -> GenerateSetChunkSize(call.n)
      [] call.name = "GenerateWindowAcknowledgementSizeChunk" -> GenerateWindowAcknowledgementSizeChunk(call.n)
      [] call.name = "GenerateSetPeerBandwidthChunk" -> GenerateSetPeerBandwidthChunk(call.n, call.limitType)
      [] OTHER -> GenerateUserStreamBegin(call.n)

\* the arguments of newChunkC1S1: the time, and what rand.Read gives
CodecC1S1Args ==
    {[time |-> t, randomBytes |-> r] :
        t \in {0, 1, 16909060, 2147483647, -2147483647 - 1, -1},
        r \in {Rnd(1, 0), Rnd(2, 7), Rnd(RandomLen, 255)}}

\* basic headers, with chunk stream ids on both sides of every bound of genBasicHeader
CodecBasicHeaders ==
    {[FMT |-> fmt, ChunkStreamID |-> csid] :
        fmt \in 0..3, csid \in CodecChunkStreamIDs \cup {65600, 65601, 16777216, -1}}

\* message headers of format 0 with a timestamp below the sentinel
CodecMessageHeaders ==
    {[Timestamp |-> ts, TimestampDelta |-> 0, MessageLength |-> ml, MessageTypeID |-> ty, MessageStreamID |-> sid] :
        ts \in {0, 1000, TimestampSentinel - 1}, ml \in {0, 184, 16777215},
        ty \in {0, MessageCommandAMF0, 255}, sid \in {0, 1, 16909060, -1}}

\* chunk headers with any value in each timestamp field, whatever the format
CodecFieldHeaders ==
    {[BasicHeader |-> [FMT |-> fmt, ChunkStreamID |-> 3],
      MessageHeader |-> [Timestamp |-> ts, TimestampDelta |-> td, MessageLength |-> 184,
                         MessageTypeID |-> MessageCommandAMF0, MessageStreamID |-> 1],
      ExtendedTimestamp |-> 0] :
        fmt \in 0..3, ts \in {0, TimestampSentinel - 1, TimestampSentinel, TimestampSentinel + 1},
        td \in {0, TimestampSentinel - 1, TimestampSentinel, TimestampSentinel + 1}}

InitCodec ==
    /\ conn = newConn
    /\ peer = NoPeer
    /\ srv = NoServe
    /\ pair = NoPair
    /\ \/ \E h \in CodecHeaders : codec = [NoCodec EXCEPT !.pc = "header", !.h = h]
       \/ \E c \in CodecC1s, now \in NowChoices \cup {-1} :
             codec = [NoCodec EXCEPT !.pc = "c1", !.c1 = c, !.now = now]
       \/ \E call \in CodecBuilderCalls : codec = [NoCodec EXCEPT !.pc = "builder", !.in = call]
       \/ \E a \in CodecC1S1Args : codec = [NoCodec EXCEPT !.pc = "c1s1", !.in = a]
       \/ \E bh \in CodecBasicHeaders : codec = [NoCodec EXCEPT !.pc = "basic", !.in = bh]
       \/ \E mh \in CodecMessageHeaders : codec = [NoCodec EXCEPT !.pc = "message", !.in = mh]
       \/ \E h \in CodecFieldHeaders : codec = [NoCodec EXCEPT !.pc = "fields", !.h = h]

GenChunkHeader ==
    /\ codec.pc \in {"header", "fields"}
    /\ codec' = [codec EXCEPT !.pc = IF codec.pc = "header" THEN "encoded" ELSE "fieldsEncoded",
                              !.enc = genChunkHeader(codec.h)]
    /\ UNCHANGED <<conn, peer, srv, pair>>

ReadChunkHeader ==
    /\ codec.pc = "encoded"
    /\ codec' = [codec EXCEPT !.pc = "decoded", !.dec = readChunkHeader(codec.enc.bytes, TRUE)]
    /\ UNCHANGED <<conn, peer, srv, pair>>

\* readC1S1 of the packet, then newChunkC2S2 and Bytes
BuildS2 ==
    /\ codec.pc = "c1"
    /\ codec' = [codec EXCEPT !.pc = "s2",
                              !.s2 = C2S2Bytes(newChunkC2S2(readC1S1(codec.c1, TRUE).chunk, codec.now))]
    /\ UNCHANGED <<conn, peer, srv, pair>>

\* a builder of a control chunk is called
BuildControlChunk ==
    /\ codec.pc = "builder"
    /\ codec' = [codec EXCEPT !.pc = "built", !.enc = callBuilder(codec.in)]
    /\ UNCHANGED <<conn, peer, srv, pair>>

\* newChunkC1S1 and Bytes
NewChunkC1S1 ==
    /\ codec.pc = "c1s1"
    /\ codec' = [codec EXCEPT !.pc = "c1s1Bytes",
                              !.c1 = C1S1Bytes(newChunkC1S1(codec.in.time, codec.in.randomBytes))]
    /\ UNCHANGED <<conn, peer, srv, pair>>

\* readC1S1 of the bytes of the packet
ReadC1S1 ==
    /\ codec.pc = "c1s1Bytes"
    /\ codec' = [codec EXCEPT !.pc = "c1s1Read", !.out = readC1S1(codec.c1, TRUE)]
    /\ UNCHANGED <<conn, peer, srv, pair>>

GenBasicHeader ==
    /\ codec.pc = "basic"
    /\ codec' = [codec EXCEPT !.pc = "basicEncoded", !.enc = genBasicHeader(codec.in)]
    /\ UNCHANGED <<conn, peer, srv, pair>>

ReadBasicHeader ==
    /\ codec.pc = "basicEncoded"
    /\ codec' = [codec EXCEPT !.pc = "basicDecoded", !.out = readBasicHeader(codec.enc.bytes, TRUE)]
    /\ UNCHANGED <<conn, peer, srv, pair>>

GenMessageHeader ==
    /\ codec.pc = "message"
    /\ codec' = [codec EXCEPT !.pc = "messageEncoded", !.enc = genMessageHeader(codec.in, 0)]
    /\ UNCHANGED <<conn, peer, srv, pair>>

ReadMessageHeader ==
    /\ codec.pc = "messageEncoded"
    /\ codec' = [codec EXCEPT !.pc = "messageDecoded", !.out = readMessageHeader(codec.enc.bytes, 0, TRUE)]
    /\ UNCHANGED <<conn, peer, srv, pair>>

NextCodec ==
    \/ GenChunkHeader
    \/ ReadChunkHeader
    \/ BuildS2
    \/ BuildControlChunk
    \/ NewChunkC1S1
    \/ ReadC1S1
    \/ GenBasicHeader
    \/ ReadBasicHeader
    \/ GenMessageHeader
    \/ ReadMessageHeader

SpecCodec == InitCodec /\ [][NextCodec]_vars

(***************************************************************************)
(* Server.Serve.  srv holds the accept loop (pc; tempDelay, in             *)
(* milliseconds; ret: what Serve returned), the serve tasks it has started *)
(* (tasks: "running", "returned" or "panicked", the ways conn.serve goes on *)
(* or ends) and the history the properties speak of (calls: the number of  *)
(* calls of Accept; last: the outcome of the last one; run: the number of  *)
(* temporary errors since the last success; slept: the last sleep).  A     *)
(* panic of a serve task is not recovered and ends the process.            *)
(***************************************************************************)
\* tempDelay after a temporary error, before the cap
doubledDelay(tempDelay) == IF tempDelay = 0 THEN AcceptFirstDelay ELSE tempDelay * 2

\* retryDelay without the cap
retryDelay_NoCap(tempDelay) == doubledDelay(tempDelay)

\* tempDelay after a temporary error
retryDelay(tempDelay) ==
    IF doubledDelay(tempDelay) > AcceptMaxDelay THEN AcceptMaxDelay ELSE doubledDelay(tempDelay)

InitServe ==
    /\ conn = newConn
    /\ peer = NoPeer
    /\ codec = NoCodec
    /\ srv = [NoServe EXCEPT !.pc = "accept"]
    /\ pair = NoPair

\* Accept returns a connection: the delay is reset and a serve task started
AcceptConn ==
    /\ srv.pc = "accept"
    /\ srv.calls < MaxCalls
    /\ Len(srv.tasks) < MaxConns
    /\ srv' = [srv EXCEPT !.calls = @ + 1, !.last = "ok", !.tempDelay = 0, !.run = 0, !.slept = 0,
                          !.tasks = Append(@, "running")]
    /\ UNCHANGED <<conn, peer, codec, pair>>

\* Accept returns a temporary error: Serve sleeps and retries
AcceptTemporaryError ==
    /\ srv.pc = "accept"
    /\ srv.calls < MaxCalls
    /\ srv' = [srv EXCEPT !.calls = @ + 1, !.last = "temporary", !.tempDelay = retryDelay(srv.tempDelay),
                          !.run = @ + 1, !.slept = retryDelay(srv.tempDelay)]
    /\ UNCHANGED <<conn, peer, codec, pair>>

\* Accept returns another error: Serve returns it
AcceptError ==
    /\ srv.pc = "accept"
    /\ srv.calls < MaxCalls
    /\ srv' = [srv EXCEPT !.calls = @ + 1, !.last = "fatal", !.pc = "returned", !.ret = "err"]
    /\ UNCHANGED <<conn, peer, codec, pair>>

\* a serve task returns, nil or an error
TaskReturns ==
    /\ srv.pc = "accept"
    /\ \E i \in 1..Len(srv.tasks) :
          /\ srv.tasks[i] = "running"
          /\ srv' = [srv EXCEPT !.tasks[i] = "returned"]
    /\ UNCHANGED <<conn, peer, codec, pair>>

\* a serve task panics in readChunk: the process ends, and Serve with it
TaskPanics ==
    /\ srv.pc = "accept"
    /\ \E i \in 1..Len(srv.tasks) :
          /\ srv.tasks[i] = "running"
          /\ srv' = [srv EXCEPT !.tasks[i] = "panicked", !.pc = "crashed"]
    /\ UNCHANGED <<conn, peer, codec, pair>>

NextServe ==
    \/ AcceptConn
    \/ AcceptTemporaryError
    \/ AcceptError
    \/ TaskReturns
    \/ TaskPanics

SpecServe == InitServe /\ [][NextServe]_vars

(***************************************************************************)
(* One step of conn.serve, for any connection: the call the task stands    *)
(* at, and what serve does with its outcome.  wok tells whether the        *)
(* flushes of the step succeed.                                            *)
(***************************************************************************)
taskCall(c, closed, randomBytes, now, wok) ==
    CASE c.pc = "handshakeC0" -> handshakeC0(c, closed, wok)
      [] c.pc = "handshakeC1" -> handshakeC1(c, closed, randomBytes, now, IF wok THEN 0 ELSE 1)
      [] c.pc = "handshakeC2" -> handshakeC2(c, closed)
      [] OTHER -> readChunk(c, closed, wok)

taskReturn(pc, r) ==
    CASE pc = "handshakeC0" -> serveHandshake(r, "handshakeC1")
      [] pc = "handshakeC1" -> serveHandshake(r, "handshakeC2")
      [] pc = "handshakeC2" -> serveHandshake(r, "loop")
      [] OTHER -> serveLoop(r)

\* the task of c runs
Alive(c) == c.pc \notin {"returned", "panicked"}

(***************************************************************************)
(* Two connections accepted by one Serve: each has its own conn value      *)
(* (Server.newConn) and its own task (go c.serve()), and its own peer.     *)
(***************************************************************************)
\* the connections cs after the task of connection i has left c: with the chunk
\* size kept in one place for all connections
Placed_SharedChunkSize(cs, i, c) == [j \in DOMAIN cs |-> IF j = i THEN c ELSE [cs[j] EXCEPT !.chunkSize = c.chunkSize]]

\* the connections cs after the task of connection i has left c
Placed(cs, i, c) == [cs EXCEPT ![i] = c]

\* what the peer of c may send next
PairInput(c) ==
    CASE c.pc = "handshakeC0" -> {<<3>>, <<4>>}
      [] c.pc = "handshakeC1" -> {SessionC1}
      [] c.pc = "handshakeC2" -> {C1S1Bytes(c.s1), Perturb(C1S1Bytes(c.s1), HandshakeChunkLen)}
      [] OTHER -> {CmdConnect, CmdFCPublish, CmdCreateStream, CmdPublish,
                   Chunk(0, 2, 0, 4, MessageSetChunkSize, PutUint32BE(256)),
                   Chunk(0, 2, 0, 3, MessageSetChunkSize, <<0, 1, 0>>),
                   Chunk(0, 4, 10, 3, MessageAudio, <<175, 1, 2>>)}

InitPair ==
    /\ conn = newConn
    /\ peer = NoPeer
    /\ codec = NoCodec
    /\ srv = NoServe
    /\ pair = [conns |-> <<newConn, newConn>>, peers |-> <<NoPeer, NoPeer>>]

\* the peer of a connection sends while the task waits for input
PairPeerSend ==
    /\ \E i \in 1..2 :
          /\ Alive(pair.conns[i])
          /\ ~pair.peers[i].closed
          /\ pair.conns[i].pc = "loop" => pair.peers[i].sends < MaxPairSends
          /\ taskCall(pair.conns[i], FALSE, <<>>, 0, TRUE).err = "block"
          /\ \E b \in PairInput(pair.conns[i]) :
                pair' = [pair EXCEPT !.conns[i].bufr = @ \o b,
                                     !.peers[i].sends = IF pair.conns[i].pc = "loop" THEN @ + 1 ELSE @]
    /\ UNCHANGED <<conn, peer, codec, srv>>

PairPeerClose ==
    /\ \E i \in 1..2 :
          /\ Alive(pair.conns[i])
          /\ ~pair.peers[i].closed
          /\ pair' = [pair EXCEPT !.peers[i].closed = TRUE]
    /\ UNCHANGED <<conn, peer, codec, srv>>

\* the task of a connection takes a step; the two tasks draw different random bytes
PairServe ==
    /\ \E i \in 1..2, wok \in BOOLEAN :
          /\ Alive(pair.conns[i])
          /\ \E r \in {taskCall(pair.conns[i], pair.peers[i].closed, Rnd(1, i), 0, wok)} :
                /\ r.err # "block"
                /\ pair' = [pair EXCEPT !.conns = Placed(pair.conns, i, taskReturn(pair.conns[i].pc, r))]
    /\ UNCHANGED <<conn, peer, codec, srv>>

NextPair ==
    \/ PairPeerSend
    \/ PairPeerClose
    \/ PairServe

SpecPair == InitPair /\ [][NextPair]_vars

(***************************************************************************)
(* A publisher that follows the protocol: C0 = 3, C1, the echo of S1 once  *)
(* S1 has arrived, then connect, releaseStream, FCPublish, createStream    *)
(* and publish, one chunk each.  It may send ahead of the server's         *)
(* reading.  No read, write or flush fails.                                *)
(***************************************************************************)
\* what the publisher sends to the connection c, in order: for each item the
\* byte strings it may choose from
PublisherScript(c) ==
    <<{<<3>>}, PeerC1, {C1S1Bytes(c.s1)},
      {CmdConnect}, {CmdReleaseStream}, {CmdFCPublish}, {CmdCreateStream}, {CmdPublish}>>

InitPublish ==
    /\ conn = newConn
    /\ peer = NoPeer
    /\ codec = NoCodec
    /\ srv = NoServe
    /\ pair = NoPair

\* the publisher sends the next item of its script; C2 waits for S1
PublisherSend ==
    /\ Running
    /\ peer.sends < Len(PublisherScript(conn))
    /\ peer.sends = 2 => conn.state >= StateAckSent
    /\ \E b \in PublisherScript(conn)[peer.sends + 1] : conn' = Received(conn, b)
    /\ peer' = [peer EXCEPT !.sends = @ + 1]
    /\ UNCHANGED <<codec, srv, pair>>

\* the task of the connection takes a step, every write and flush succeeding
PublishServe ==
    /\ Running
    /\ \E randomBytes \in S1Randoms, now \in NowChoices :
         \E r \in {taskCall(conn, FALSE, randomBytes, now, TRUE)} :
            r.err # "block" /\ conn' = taskReturn(conn.pc, r)
    /\ UNCHANGED peer
    /\ UNCHANGED <<codec, srv, pair>>

NextPublish ==
    \/ PublisherSend
    \/ PublishServe

\* the publisher keeps sending and the task, once it has input, is scheduled
SpecPublish == InitPublish /\ [][NextPublish]_vars /\ WF_vars(PublisherSend) /\ WF_vars(PublishServe)

(***************************************************************************)
(* Properties.                                                             *)
(***************************************************************************)
\* the complete chunk b is the next input of the connection
HeadIs(b) == Len(conn.bufr) >= Len(b) /\ Take(conn.bufr, Len(b)) = b

\* a step of the serve task: the peer's steps leave pc alone, and a readChunk
\* that stays in the loop consumes input or logs the end of input
ServeStep ==
    \/ conn'.pc # conn.pc
    \/ conn'.bufr # conn.bufr /\ Len(conn'.bufr) < Len(conn.bufr)
    \/ conn'.gotEOF # conn.gotEOF

S0OnWire == Raw(<<3>>)

\* C1: the session state never decreases, whatever the peer sends and in
\* whatever order.
C1_StateMonotone == [][conn'.state >= conn.state]_vars

\* the command at the head of the input arrives below the state it requires
OutOfOrderCommand ==
    \/ conn.state < StateConnectResponseSent
         /\ (HeadIs(CmdReleaseStream) \/ HeadIs(CmdFCPublish) \/ HeadIs(CmdCreateStream))
    \/ conn.state < StateSentCreateStreamResponse /\ HeadIs(CmdPublish)

\* C2: a releaseStream, FCPublish or createStream received below
\* ConnectResponseSent, or a publish received below CreateStreamResponseSent,
\* is fatal: serve returns an error, nothing is written, the state is unchanged.
C2_OutOfOrderIsFatal ==
    [][(conn.pc = "loop" /\ OutOfOrderCommand /\ ServeStep)
         => /\ conn'.pc = "returned"
            /\ conn'.ret = "err"
            /\ conn'.sent = conn.sent
            /\ conn'.bufw = conn.bufw
            /\ conn'.state = conn.state]_vars

\* the C2 at the head of the input echoes the random bytes of the S1 on the wire
C2EchoesS1 ==
    /\ Len(conn.bufr) >= HandshakeChunkLen
    /\ Len(conn.sent) >= 2
    /\ SubSeq(conn.bufr, 9, HandshakeChunkLen) = SubSeq(conn.sent[2].bytes, 9, HandshakeChunkLen)

\* C3: the handshake succeeds only if the random echo of C2 equals the random
\* bytes of this handshake's S1; with a complete C2 that differs in some byte
\* the handshake fails, the state stays AckSent, and no chunk is ever read.
C3_EchoRequired ==
    /\ [][(conn.pc = "handshakeC2" /\ conn'.pc # "handshakeC2")
            => /\ (conn'.pc = "loop" \/ conn'.state = StateHandshakeDone) => C2EchoesS1
               /\ (Len(conn.bufr) >= HandshakeChunkLen /\ ~C2EchoesS1)
                    => /\ conn'.pc = "returned"
                       /\ conn'.ret = "err"
                       /\ conn'.state = StateAckSent]_vars
    /\ [](conn.state < StateHandshakeDone
            => conn.pc # "loop" /\ conn.header = NoChunkHeader /\ ~conn.gotEOF /\ conn.nread = 0)

\* the handshake has failed on a complete C2 whose echo differs
C3_Witness ==
    /\ conn.pc = "returned"
    /\ conn.state = StateAckSent
    /\ ~peer.closed
    /\ conn.bufw = <<>>
    /\ Len(conn.sent) = 3

\* C4: the server answers C0 with S0 (the byte 3), C1 with an S1 of 1536
\* bytes and then an S2 of 1536 bytes that echoes the random bytes of C1 (the
\* bytes after the first 8); S0 is written only after C0 was read, S1 and S2
\* only after C1 was read; the state is
\* Uninitialized, VersionSent, AckSent at the three reads and HandshakeDone
\* when the handshake has returned.
C4_HandshakeSequence ==
    /\ conn.pc = "handshakeC0"
         => conn.state = StateUninitialized /\ conn.sent = <<>> /\ conn.bufw = <<>>
    /\ conn.pc = "handshakeC1"
         => conn.state = StateVersionSent /\ conn.sent = <<S0OnWire>> /\ conn.bufw = <<>>
    /\ conn.pc = "handshakeC2"
         => /\ conn.state = StateAckSent
            /\ Len(conn.sent) = 3
            /\ conn.sent[1] = S0OnWire
            /\ Len(conn.sent[2].bytes) = HandshakeChunkLen
            /\ Len(conn.sent[3].bytes) = HandshakeChunkLen
            /\ SubSeq(conn.sent[3].bytes, 9, HandshakeChunkLen) = SubSeq(peer.c1, 9, HandshakeChunkLen)
    /\ (conn.pc = "loop" /\ peer.sends = 0)
         => conn.state = StateHandshakeDone /\ Len(conn.sent) = 3

\* the handshake has completed
C4_Witness == conn.pc = "loop" /\ peer.sends = 0 /\ conn.state = StateHandshakeDone /\ Len(conn.sent) = 3

C6_NoPanic == conn.pc # "panicked"

\* C7: when the peer has closed cleanly between chunks, the step serve takes
\* makes it return nil.
C7_ReturnsOnCleanClose ==
    [][(conn.pc = "loop" /\ conn.bufr = <<>> /\ peer.closed /\ ServeStep)
         => conn'.pc = "returned" /\ conn'.ret = "nil"]_vars

\* C8: serve returns only with the socket closed.
C8_ClosedOnReturn == conn.pc = "returned" => conn.netClosed

\* the chunk size the claim speaks of: 128 on a new connection (where the
\* field chunkSize holds its zero value), then the value of the last Set Chunk Size
SessionChunkSize == IF conn.chunkSize = 0 THEN 128 ELSE conn.chunkSize

\* the last readChunk has read a chunk, other than a Set Chunk Size, with success
ChunkWasRead ==
    /\ conn.pc = "loop"
    /\ conn.header # NoChunkHeader
    /\ conn.header.MessageHeader.MessageTypeID # MessageSetChunkSize

\* C9: after the header of a chunk the driver consumes exactly
\* min(message length, chunk size) bytes.
C9_ConsumesOneChunk ==
    ChunkWasRead => conn.nread = Min(conn.header.MessageHeader.MessageLength, SessionChunkSize)

\* the replies to a connect with transaction id 1.0, as they appear on the wire
ConnectReplies ==
    <<Raw(<<2, 0, 0, 0, 0, 0, 4, 5, 0, 0, 0, 0, 0, 38, 37, 160>>),
      Raw(<<2, 0, 0, 0, 0, 0, 5, 6, 0, 0, 0, 0, 0, 38, 37, 160, 2>>),
      Raw(<<2, 0, 0, 0, 0, 0, 6, 4, 0, 0, 0, 0, 0, 0, 0, 0, 0, 0>>),
      Raw(<<2, 0, 0, 0, 0, 0, 4, 1, 0, 0, 0, 0, 0, 0, 16, 0>>),
      [name |-> "_result(connect)", bytes |-> <<>>, txid |-> Tx1, arg |-> <<>>]>>

CreateStreamResult == [name |-> "_result(createStream)", bytes |-> <<>>, txid |-> Tx2, arg |-> <<1>>]

StreamBegin1OnWire == Raw(<<2, 0, 0, 0, 0, 0, 6, 4, 0, 0, 0, 0, 0, 0, 0, 0, 0, 1>>)

\* the onStatus of a publish with transaction id 2.0 on the stream named n
PublishStart(n) == [name |-> "onStatus(publish start)", bytes |-> <<>>, txid |-> Tx2, arg |-> n]

OnFCPublish == [name |-> "onFCPublish", bytes |-> <<>>, txid |-> Tx2, arg |-> StrKey]

MediaTypes == {MessageAudio, MessageVideo, MessageDataAMF3, MessageDataAMF0, MessageAggregate}

\* the input starts with a whole chunk whose message type is in types
WholeChunkOf(types) ==
    \E h \in {readChunkHeader(conn.bufr, TRUE)} :
       /\ h.err = "nil"
       /\ h.ch.MessageHeader.MessageTypeID \in types
       /\ Len(h.rest) >= h.ch.MessageHeader.MessageLength

\* C14: an audio, video, data or aggregate message received in
\* PublishingContent leaves the state, the chunk size and the stream name
\* unchanged, writes nothing, and the connection keeps reading.
C14_MediaIsInert ==
    [][(conn.pc = "loop" /\ conn.state = StatePublishingContent /\ WholeChunkOf(MediaTypes) /\ ServeStep)
         => /\ conn'.state = StatePublishingContent
            /\ conn'.chunkSize = conn.chunkSize
            /\ conn'.streamName = conn.streamName
            /\ conn'.sent = conn.sent
            /\ conn'.bufw = conn.bufw
            /\ conn'.pc = "loop"]_vars

\* a media message was read in PublishingContent
C14_Witness ==
    /\ conn.state = StatePublishingContent
    /\ conn.pc = "loop"
    /\ peer.sends = 3
    /\ conn.header.MessageHeader.MessageTypeID \in MediaTypes
    /\ conn.bufr = <<>>

\* C15: a whole chunk of an unknown message type is consumed, header and
\* declared length of payload, with success: state, chunk size, stream name
\* and output are unchanged and the connection keeps reading.
C15_UnknownTypeDrained ==
    [][(conn.pc = "loop" /\ WholeChunkOf((0 .. 255) \ KnownTypes) /\ ServeStep)
         => /\ \A h \in {readChunkHeader(conn.bufr, TRUE)} :
                 conn'.bufr = Drop(h.rest, h.ch.MessageHeader.MessageLength)
            /\ conn'.state = conn.state
            /\ conn'.chunkSize = conn.chunkSize
            /\ conn'.streamName = conn.streamName
            /\ conn'.sent = conn.sent
            /\ conn'.bufw = conn.bufw
            /\ conn'.pc = "loop"]_vars

\* a message of the unknown type 99 was read and its two bytes consumed
C15_Witness ==
    /\ conn.pc = "loop"
    /\ conn.header.MessageHeader.MessageTypeID = 99
    /\ conn.nread = 2
    /\ conn.bufr = <<>>

\* the serve task stands at a read of peer input
AtRead == conn.pc \in {"handshakeC0", "handshakeC1", "handshakeC2", "loop"}

\* C16: whenever the task stands at a read of peer input (C0, C1, C2 or the
\* next chunk header) the buffered writer is empty: everything written was flushed.
C16_FlushedAtRead == AtRead => conn.bufw = <<>>

\* the task waits for the next chunk after the replies to createStream and publish
C16_Witness ==
    /\ conn.pc = "loop"
    /\ conn.state = StatePublishingContent
    /\ Len(conn.sent) = 6
    /\ conn.bufr = <<>>
    /\ conn.bufw = <<>>

\* C17: for every header with chunk stream id in 2..65599 and format 0..3,
\* reading back the generated header succeeds, consumes exactly the generated
\* bytes and gives the header, field for field.
C17_HeaderRoundTrip ==
    codec.pc = "decoded"
      => /\ codec.enc.err = "nil"
         /\ codec.dec.err = "nil"
         /\ codec.dec.rest = <<>>
         /\ codec.dec.ch = codec.h

\* C18: the S2 built from a parsed C1 is 1536 bytes long, starts with the four
\* bytes of the time of the C1 and echoes the bytes of the C1 from offset 8 on.
C18_S2EchoesC1 ==
    codec.pc = "s2"
      => /\ Len(codec.s2) = HandshakeChunkLen
         /\ Take(codec.s2, 4) = Take(codec.c1, 4)
         /\ Drop(codec.s2, 8) = Drop(codec.c1, 8)

\* an S2 was built from a C1 whose time has the top bit set and whose bytes 4..8 are not zero
C18_Witness ==
    /\ codec.pc = "s2"
    /\ Take(codec.c1, 8) = <<255, 255, 255, 255, 9, 8, 7, 6>>
    /\ Len(codec.s2) = HandshakeChunkLen

\* C19: after the k-th temporary error in a row Serve sleeps
\* min(5 ms * 2^(k-1), 1 s); a success resets the delay; the delay never
\* exceeds 1 s.
C19_Backoff ==
    /\ srv.run > 0 =>
         /\ srv.slept = Min(AcceptFirstDelay * 2^(srv.run - 1), AcceptMaxDelay)
         /\ srv.tempDelay = srv.slept
    /\ srv.run = 0 => srv.tempDelay = 0
    /\ srv.tempDelay <= AcceptMaxDelay

\* ten temporary errors in a row, a success, and the next temporary error sleeps 5 ms
C19_Witness ==
    /\ srv.calls = 12
    /\ Len(srv.tasks) = 1
    /\ srv.last = "temporary"
    /\ srv.run = 1
    /\ srv.slept = AcceptFirstDelay

\* C20: Serve stops accepting only by returning the error of an Accept that
\* failed with an error that is not temporary.
C20_AcceptsForever ==
    [][(srv.pc = "accept" /\ srv'.pc # "accept")
         => /\ srv'.pc = "returned"
            /\ srv'.ret = "err"
            /\ srv'.last = "fatal"
            /\ srv'.calls = srv.calls + 1]_vars

\* the task of connection i of the pair takes a step: something of the
\* connection other than the arrival of input changes
PairTaskStep(i) ==
    \/ [pair'.conns[i] EXCEPT !.bufr = <<>>] # [pair.conns[i] EXCEPT !.bufr = <<>>]
    \/ Len(pair'.conns[i].bufr) < Len(pair.conns[i].bufr)

C22_PublisherReachesPublishing ==
    /\ [][conn'.state \in {conn.state, conn.state + 1}]_vars
    /\ <>(conn.state = StatePublishingContent)

\* the whole script has been sent and read and the session is publishing
C22_Witness ==
    /\ conn.state = StatePublishingContent
    /\ peer.sends = Len(PublisherScript(conn))
    /\ conn.bufr = <<>>
    /\ Running

\* the type id, the number of payload bytes and the payload of the chunk of a
\* builder call; a 32-bit value n with its top bit cleared
BuilderTypeID(call) ==
    CASE call.name = "GenerateSetChunkSize" -> 1
      [] call.name = "GenerateWindowAcknowledgementSizeChunk" -> 5
      [] call.name = "GenerateSetPeerBandwidthChunk" -> 6
      [] OTHER -> 4

BuilderPayloadLen(call) ==
    CASE call.name = "GenerateSetChunkSize" -> 4
      [] call.name = "GenerateWindowAcknowledgementSizeChunk" -> 4
      [] call.name = "GenerateSetPeerBandwidthChunk" -> 5
      [] OTHER -> 6

ClearTopBit(n) == IF n < 0 THEN (n + 2147483647) + 1 ELSE n

BuilderPayload(call) ==
    CASE call.name = "GenerateSetChunkSize" -> PutUint32BE(ClearTopBit(call.n))
      [] call.name = "GenerateWindowAcknowledgementSizeChunk" -> PutUint32BE(call.n)
      [] call.name = "GenerateSetPeerBandwidthChunk" -> PutUint32BE(call.n) \o <<call.limitType>>
      [] OTHER -> <<0, 0>> \o PutUint32BE(call.n)

\* C23: every builder of a control chunk returns, for every argument, the
\* 12-byte format-0 header of chunk stream 2 (timestamp 0, the message length
\* 4, 4, 5 or 6, the type id 1, 5, 6 or 4, message stream 0) followed by that
\* many payload bytes, which hold the arguments big-endian.
C23_ControlChunks ==
    codec.pc = "built"
      => /\ codec.enc.err = "nil"
         /\ Take(codec.enc.bytes, 12)
              = <<2, 0, 0, 0, 0, 0, BuilderPayloadLen(codec.in), BuilderTypeID(codec.in), 0, 0, 0, 0>>
         /\ Len(codec.enc.bytes) = 12 + BuilderPayloadLen(codec.in)
         /\ Drop(codec.enc.bytes, 12) = BuilderPayload(codec.in)

\* a Set Peer Bandwidth chunk was built for a size with the top bit set
C23_Witness ==
    /\ codec.pc = "built"
    /\ codec.in = [name |-> "GenerateSetPeerBandwidthChunk", n |-> -1, limitType |-> 2]
    /\ codec.enc.bytes = <<2, 0, 0, 0, 0, 0, 5, 6, 0, 0, 0, 0, 255, 255, 255, 255, 2>>

\* C24: the payload of GenerateSetChunkSize(n) is n with its top bit cleared,
\* big-endian, so the first payload byte is below 128; for n = 4096 the chunk
\* is 02 00 00 00 00 00 04 01 00 00 00 00 00 00 10 00.
C24_SetChunkSizeTopBit ==
    (codec.pc = "built" /\ codec.in.name = "GenerateSetChunkSize")
      => /\ Drop(codec.enc.bytes, 12) = PutUint32BE(ClearTopBit(codec.in.n))
         /\ codec.enc.bytes[13] < 128
         /\ codec.in.n = 4096 => codec.enc.bytes = <<2, 0, 0, 0, 0, 0, 4, 1, 0, 0, 0, 0, 0, 0, 16, 0>>

\* a Set Chunk Size chunk was built for 2^31 + 2^24 + ..., a size with the top bit set
C24_Witness ==
    /\ codec.pc = "built"
    /\ codec.in.name = "GenerateSetChunkSize"
    /\ codec.in.n = -1
    /\ Drop(codec.enc.bytes, 12) = <<127, 255, 255, 255>>

\* C25: the bytes of newChunkC1S1(t) are 1536 long, the big-endian t, four
\* zero bytes and the 1528 random bytes of the packet; readC1S1 of these
\* bytes returns the time t and the same random bytes.
C25_C1S1RoundTrip ==
    /\ codec.pc \in {"c1s1Bytes", "c1s1Read"}
         => /\ Len(codec.c1) = HandshakeChunkLen
            /\ Take(codec.c1, 4) = PutUint32BE(codec.in.time)
            /\ SubSeq(codec.c1, 5, 8) = <<0, 0, 0, 0>>
            /\ Drop(codec.c1, 8) = codec.in.randomBytes
            /\ Len(codec.in.randomBytes) = RandomLen
    /\ codec.pc = "c1s1Read"
         => /\ codec.out.err = "nil"
            /\ codec.out.chunk.time = codec.in.time
            /\ codec.out.chunk.randomBytes = codec.in.randomBytes

\* a packet with a time whose top bit is set was written and read back
C25_Witness ==
    /\ codec.pc = "c1s1Read"
    /\ codec.in.time = -1
    /\ codec.in.randomBytes = Rnd(RandomLen, 255)
    /\ codec.out.chunk.time = -1

\* the handshake waits for a packet of which fewer bytes than its length have arrived
ShortHandshakeInput ==
    \/ conn.pc = "handshakeC0" /\ Len(conn.bufr) < 1
    \/ conn.pc \in {"handshakeC1", "handshakeC2"} /\ Len(conn.bufr) < HandshakeChunkLen

\* the state in which the handshake reads the packet it stands at
StateAtRead ==
    CASE conn.pc = "handshakeC0" -> StateUninitialized
      [] conn.pc = "handshakeC1" -> StateVersionSent
      [] OTHER -> StateAckSent

\* C26: when the peer has closed before C0, or after fewer than 1536 bytes of
\* C1 or of C2, the handshake step fails: serve returns the error with the
\* socket closed, the state is the one the read started in (Uninitialized,
\* VersionSent, AckSent), nothing more is written and no chunk is read.
C26_ShortReadFails ==
    [][(ShortHandshakeInput /\ peer.closed /\ conn' # conn)
         => /\ conn'.pc = "returned"
            /\ conn'.ret = "err"
            /\ conn'.netClosed
            /\ conn.state = StateAtRead
            /\ conn'.state = conn.state
            /\ conn'.sent = conn.sent
            /\ conn'.bufw = conn.bufw
            /\ conn'.header = NoChunkHeader
            /\ conn'.nread = 0]_vars

\* the peer closed after 1535 bytes of C1 and serve has returned in VersionSent
C26_Witness ==
    /\ peer.c1 \in PeerShortC1
    /\ peer.closed
    /\ conn.pc = "returned"
    /\ conn.ret = "err"
    /\ conn.netClosed
    /\ conn.state = StateVersionSent
    /\ conn.sent = <<S0OnWire>>

\* C27: genBasicHeader fails exactly for chunk stream ids of 65600 and more;
\* for ids 2..65599 it returns 1, 2 or 3 bytes.
C27_BasicHeaderError ==
    codec.pc = "basicEncoded"
      => /\ codec.enc.err # "nil" <=> ~U32Less(codec.in.ChunkStreamID, 65600)
         /\ codec.in.ChunkStreamID \in 2..65599
              => codec.enc.err = "nil" /\ Len(codec.enc.bytes) \in 1..3

\* the number of bytes of the basic header of chunk stream csid
BasicHeaderLen(csid) == IF csid < 64 THEN 1 ELSE IF csid < 320 THEN 2 ELSE 3

\* C28: for chunk stream ids 2..65599 and every format, readBasicHeader of the
\* bytes of genBasicHeader returns the format and the id and leaves nothing
\* unread, the bytes being 1 for ids up to 63, 2 up to 319, 3 above.
C28_BasicHeaderRoundTrip ==
    (codec.pc = "basicDecoded" /\ codec.in.ChunkStreamID \in 2..65599)
      => /\ codec.enc.err = "nil"
         /\ Len(codec.enc.bytes) = BasicHeaderLen(codec.in.ChunkStreamID)
         /\ codec.out.err = "nil"
         /\ codec.out.h = codec.in
         /\ codec.out.rest = <<>>

\* C29: a format-0 message header with a timestamp below 0xFFFFFF is written
\* as 11 bytes (timestamp and length 3 bytes big-endian, the type id, the
\* message stream id 4 bytes little-endian) and reads back with the same
\* timestamp, length, type id and message stream id.
C29_MessageHeaderRoundTrip ==
    /\ codec.pc \in {"messageEncoded", "messageDecoded"}
         => /\ codec.enc.err = "nil"
            /\ Len(codec.enc.bytes) = 11
            /\ SubSeq(codec.enc.bytes, 1, 3) = Drop(PutUint32BE(codec.in.Timestamp), 1)
            /\ SubSeq(codec.enc.bytes, 4, 6) = Drop(PutUint32BE(codec.in.MessageLength), 1)
            /\ codec.enc.bytes[7] = codec.in.MessageTypeID
            /\ SubSeq(codec.enc.bytes, 8, 11)
                 = [i \in 1..4 |-> PutUint32BE(codec.in.MessageStreamID)[5 - i]]
    /\ codec.pc = "messageDecoded"
         => /\ codec.out.err = "nil"
            /\ codec.out.rest = <<>>
            /\ codec.out.mh.Timestamp = codec.in.Timestamp
            /\ codec.out.mh.MessageLength = codec.in.MessageLength
            /\ codec.out.mh.MessageTypeID = codec.in.MessageTypeID
            /\ codec.out.mh.MessageStreamID = codec.in.MessageStreamID

\* a header with the largest fields and a message stream id whose bytes all differ was read back
C29_Witness ==
    /\ codec.pc = "messageDecoded"
    /\ codec.in.Timestamp = TimestampSentinel - 1
    /\ codec.in.MessageLength = 16777215
    /\ codec.in.MessageStreamID = 16909060
    /\ codec.enc.bytes = <<255, 255, 254, 255, 255, 255, codec.in.MessageTypeID, 4, 3, 2, 1>>

\* the field a header of its format carries on the wire
WireTimestamp(h) ==
    IF h.BasicHeader.FMT = 0 THEN h.MessageHeader.Timestamp ELSE h.MessageHeader.TimestampDelta

\* the 24-bit field on the wire is the sentinel
WireIsSentinel(h) ==
    h.BasicHeader.FMT \in {0, 1, 2} /\ ~U32Less(WireTimestamp(h), TimestampSentinel)

\* C30: the bytes of genChunkHeader are the basic header, the message header
\* and, exactly when the format is 0, 1 or 2 and the field the format carries
\* is written as 0xFFFFFF, four more bytes, the big-endian value of that field.
C30_ExtendedTimestamp ==
    (codec.pc \in {"encoded", "fieldsEncoded"} /\ codec.enc.err = "nil")
      => codec.enc.bytes
           = genBasicHeader(codec.h.BasicHeader).bytes
             \o genMessageHeader(codec.h.MessageHeader, codec.h.BasicHeader.FMT).bytes
             \o (IF WireIsSentinel(codec.h) THEN PutUint32BE(WireTimestamp(codec.h)) ELSE <<>>)

\* the last readChunk has read, with success, a format-0 chunk on chunk stream csid
Format0WasRead(csid) ==
    /\ conn.pc = "loop"
    /\ conn.header.BasicHeader = [FMT |-> 0, ChunkStreamID |-> csid]

\* C31: a chunk of format 1, 2 or 3 that follows a format-0 chunk on the same
\* chunk stream is dispatched on the fields of that chunk where it has none of
\* its own (format 3: message length and type id; every format: the message
\* stream id), and a message longer than the chunk size is consumed whole,
\* continuation headers included, before the next header is read.
C31_InheritsPerChunkStream ==
    [][(Len(conn'.bufr) < Len(conn.bufr))
         => /\ (Format0WasRead(4) /\ conn'.header.BasicHeader = [FMT |-> 3, ChunkStreamID |-> 4])
                 => /\ conn'.header.MessageHeader.MessageLength = conn.header.MessageHeader.MessageLength
                    /\ conn'.header.MessageHeader.MessageTypeID = conn.header.MessageHeader.MessageTypeID
                    /\ conn'.nread = conn.header.MessageHeader.MessageLength
            /\ (conn.pc = "loop" /\ conn.bufr = LongAudio /\ conn'.pc = "loop")
                 => conn'.bufr = <<>>]_vars

\* the payload is that of a connect command: the name and a transaction id
IsConnect(payload) ==
    Len(payload) >= 19 /\ Take(payload, 11) = AmfString(StrConnect) \o <<AMF0NumberMarker>>

\* the bytes readChunk takes from the input buf for a command message whose
\* header declares the message length ml and is followed by rest: the payload
\* and, for a connect whose payload holds 0xC3, the one byte after it
CommandBytes(rest, ml) ==
    IF IsConnect(Take(rest, ml)) /\ Has0xC3(Take(rest, ml)) /\ Len(rest) > ml THEN ml + 1 ELSE ml

\* C32: of a command message whose payload has arrived readChunk consumes the
\* payload and nothing more, except for a connect whose payload holds at least
\* one 0xC3: then it consumes exactly one byte more, if there is one, however
\* many 0xC3 bytes there are.
C32_OneExtraByteForConnect ==
    [][(conn.pc = "loop" /\ Len(conn'.bufr) < Len(conn.bufr))
         => \A h \in {readChunkHeader(conn.bufr, TRUE)} :
               (/\ h.err = "nil"
                /\ h.ch.MessageHeader.MessageTypeID = MessageCommandAMF0
                /\ Len(h.rest) >= h.ch.MessageHeader.MessageLength)
                 => /\ conn'.nread = CommandBytes(h.rest, h.ch.MessageHeader.MessageLength)
                    /\ conn'.bufr = Drop(h.rest, conn'.nread)]_vars

\* a connect with two 0xC3 bytes in its payload was answered, and one byte
\* more than its payload was consumed
C32_Witness ==
    /\ conn.pc = "loop"
    /\ conn.state = StateConnectResponseSent
    /\ conn.header.MessageHeader.MessageLength = Len(ConnectPayload) + 2
    /\ conn.nread = Len(ConnectPayload) + 3

\* the step ends serve with something written that did not reach the peer
TransmissionFailed ==
    /\ conn.pc \notin {"returned", "panicked"}
    /\ conn'.pc = "returned"
    /\ conn'.bufw # <<>>

\* C33: when a write or flush of S0, S1, S2, of the replies to connect, of the
\* createStream _result or of the publish replies fails, serve returns the
\* error and the state is the one before the failed transmission: the state
\* of the step's start, or AckSent when S1 went out and S2 failed.
C33_StateAfterTransmission ==
    [][TransmissionFailed
         => /\ conn'.ret = "err"
            /\ conn'.state = IF conn.pc = "handshakeC1" /\ conn'.sent # conn.sent
                             THEN StateAckSent ELSE conn.state
            /\ conn.pc = "handshakeC1" => conn.state = StateVersionSent
            /\ conn.pc # "handshakeC1" => conn'.sent = conn.sent]_vars

\* the flush of the five replies to connect has failed in HandshakeDone
C33_Witness ==
    /\ conn.pc = "returned"
    /\ conn.ret = "err"
    /\ conn.state = StateHandshakeDone
    /\ Len(conn.bufw) = 5
    /\ conn.bufw[5].name = "_result(connect)"
    /\ Len(conn.sent) = 3

\* C34: a publish read in PublishingContent is consumed and ignored: serve
\* stays in its loop, nothing is written or sent, and the state, the chunk
\* size and the stream name stay as they are.
C34_SecondPublishIgnored ==
    [][(/\ conn.pc = "loop"
        /\ conn.state = StatePublishingContent
        /\ HeadIs(CmdPublish)
        /\ Len(conn'.bufr) < Len(conn.bufr))
         => /\ conn'.pc = "loop"
            /\ conn'.bufr = Drop(conn.bufr, Len(CmdPublish))
            /\ conn'.sent = conn.sent
            /\ conn'.bufw = conn.bufw
            /\ conn'.state = StatePublishingContent
            /\ conn'.chunkSize = conn.chunkSize
            /\ conn'.streamName = conn.streamName]_vars

\* the publisher's session has read one more publish and sent nothing for it
C34_Witness ==
    /\ conn.pc = "loop"
    /\ peer.sends = 1
    /\ conn.bufr = <<>>
    /\ conn.header = AfterPublish.header
    /\ conn.nread = AfterPublish.nread
    /\ conn.state = StatePublishingContent
    /\ conn.sent = AfterPublish.sent
    /\ conn.bufw = <<>>

\* a createStream _result has reached the peer
CreateStreamResultSent == \E i \in 1..Len(conn.sent) : conn.sent[i].name = "_result(createStream)"

\* C35: in PublishingContent a createStream _result has been flushed to the
\* peer, and PublishingContent is entered only from CreateStreamResponseSent,
\* by a step that reads a publish command.
C35_PublishingAfterCreateStream ==
    /\ [](conn.state = StatePublishingContent => CreateStreamResultSent)
    /\ [][(conn'.state = StatePublishingContent /\ conn.state # StatePublishingContent)
            => /\ conn.state = StateSentCreateStreamResponse
               /\ conn.pc = "loop"
               /\ conn'.header.MessageHeader.MessageTypeID = MessageCommandAMF0
               /\ HeadIs(CmdPublish)]_vars

\* from construction: handshake, createStream and publish, and the session publishes
C35_Witness ==
    /\ conn.state = StatePublishingContent
    /\ conn.pc = "loop"
    /\ peer.sends = 2
    /\ conn.sent[4] = CreateStreamResult
    /\ Len(conn.sent) = 6

\* the payload holds a command name that has no case, and a transaction id
IsOtherCommand(payload) ==
    \A n \in {amfReadString(payload)} :
       /\ n.err = "nil"
       /\ n.val \notin {StrConnect, StrReleaseStream, StrFCPublish, StrCreateStream, StrPublish}
       /\ amfReadDouble(n.rest).err = "nil"

\* C36: a command message with a name and a transaction id whose name is none
\* of connect, releaseStream, FCPublish, createStream, publish is consumed,
\* header and payload and nothing more, and ignored: serve stays in its loop,
\* nothing is written, and state, chunk size and stream name are unchanged.
C36_OtherCommandIgnored ==
    [][(conn.pc = "loop" /\ Len(conn'.bufr) < Len(conn.bufr))
         => \A h \in {readChunkHeader(conn.bufr, TRUE)} :
               (/\ h.err = "nil"
                /\ h.ch.MessageHeader.MessageTypeID = MessageCommandAMF0
                /\ Len(h.rest) >= h.ch.MessageHeader.MessageLength
                /\ IsOtherCommand(Take(h.rest, h.ch.MessageHeader.MessageLength)))
                 => /\ conn'.pc = "loop"
                    /\ conn'.bufr = Drop(h.rest, h.ch.MessageHeader.MessageLength)
                    /\ conn'.nread = h.ch.MessageHeader.MessageLength
                    /\ conn'.sent = conn.sent
                    /\ conn'.bufw = conn.bufw
                    /\ conn'.state = conn.state
                    /\ conn'.chunkSize = conn.chunkSize
                    /\ conn'.streamName = conn.streamName]_vars

\* a play command was read right after the handshake and nothing was sent for it
C36_Witness ==
    /\ conn.pc = "loop"
    /\ peer.sends = 1
    /\ conn.bufr = <<>>
    /\ conn.header.MessageHeader.MessageTypeID = MessageCommandAMF0
    /\ conn.header.MessageHeader.MessageLength = Len(CmdPlay) - 12
    /\ conn.nread = Len(CmdPlay) - 12
    /\ conn.state = StateHandshakeDone
    /\ conn.sent = AfterC2.sent

\* C37: a Set Chunk Size message of declared length 4 whose payload has
\* arrived sets the chunk size to the big-endian 32-bit value of the four
\* bytes and leaves the state; with another declared length serve returns an
\* error, the payload stays unread and the chunk size is unchanged.
C37_SetChunkSize ==
    [][(conn.pc = "loop" /\ Len(conn'.bufr) < Len(conn.bufr))
         => \A h \in {readChunkHeader(conn.bufr, TRUE)} :
               (h.err = "nil" /\ h.ch.MessageHeader.MessageTypeID = MessageSetChunkSize)
                 => /\ (h.ch.MessageHeader.MessageLength = 4 /\ Len(h.rest) >= 4)
                         => /\ conn'.chunkSize = Uint32BE(Take(h.rest, 4))
                            /\ conn'.bufr = Drop(h.rest, 4)
                            /\ conn'.pc = "loop"
                            /\ conn'.state = conn.state
                    /\ h.ch.MessageHeader.MessageLength # 4
                         => /\ conn'.pc = "returned"
                            /\ conn'.ret = "err"
                            /\ conn'.bufr = h.rest
                            /\ conn'.chunkSize = conn.chunkSize
                            /\ conn'.state = conn.state
                    /\ conn'.sent = conn.sent
                    /\ conn'.bufw = conn.bufw]_vars

\* the chunk size was set to 0x80000100, kept in two's complement
C37_Witness ==
    /\ conn.pc = "loop"
    /\ peer.sends = 2
    /\ conn.bufr = <<>>
    /\ conn.header.MessageHeader.MessageTypeID = MessageSetChunkSize
    /\ conn.chunkSize = 256 - 2147483647 - 1
    /\ conn.state = StateHandshakeDone

====
